---- MODULE Spec2Model ----
(***************************************************************************)
(* Model of sopel_modules/kpopsundry/kpopsundry.py: the kps-strim OAuth    *)
(* request helpers, the live-status watcher and the remember/forget        *)
(* responder.  Every handler of the module is one action; the helpers it  *)
(* calls are operators that return the handler's effects as a record.     *)
(***************************************************************************)
EXTENDS Naturals, Integers, Sequences, FiniteSets, TLC

VARIABLES
    token,           \* sopel.memory['kps_strim']['token'] (identity of the token)
    issued,          \* number of tokens the token endpoint has handed out so far
    live,            \* sopel.memory['kps_strim']['live']
    google_api_key,  \* sopel.config.kpopsundry.google_api_key is set
    remember,        \* sopel.memory['remember'], a dict kept in insertion order
    kps_remember,    \* rows of the table kps_remember, in rowid order
    last_remember,   \* sopel.memory['last_remember'], None until first set
    ogs_token,       \* sopel.memory['ogs_token'] (identity of the token)
    strims,          \* the strims created at strim.pmrowla.com, in order
    dispatch,        \* how the bot runs its handlers: one at a time or in threads
    now,             \* time.time(), in seconds since setup
    ogs_sched,       \* the events queued in sopel.memory['ogs_sched']
    ogs_seq,         \* the sequence number that scheduler gives its next event
    games,           \* where the get_ogs_game handler of each line stands
    tv_stations,     \* sopel.memory['tv_stations'], in insertion order
    tv_shows,        \* sopel.memory['tv_shows'], in insertion order
    kps_tv_station,  \* rows of the table kps_tv_station, in rowid order
    kps_tv_show,     \* rows of the table kps_tv_show, in rowid order
    op,              \* the handler that ran last, with the inputs it was given
    said,            \* what that handler sent with sopel.say / sopel.reply
    raised,          \* the exception that handler let escape, "none" otherwise
    returned,        \* the status of the response a kps_strim_* call returned
    http             \* the HTTP exchanges that handler made, in order

vars == <<token, issued, live, google_api_key, remember, kps_remember,
          last_remember, ogs_token, strims, dispatch, now, ogs_sched, ogs_seq,
          games,
          tv_stations, tv_shows, kps_tv_station, kps_tv_show,
          op, said, raised, returned, http>>

strimVars == <<token, issued, live, google_api_key>>
rememberVars == <<remember, kps_remember, last_remember>>
serviceVars == <<ogs_token, strims>>
schedVars == <<dispatch, now, ogs_sched, ogs_seq, games>>
tvVars == <<tv_stations, tv_shows, kps_tv_station, kps_tv_show>>

\* ------------------------------------------------------------------ bounds

\* tokens the token endpoint issues in one run of the model
MaxTokens == 3
\* rows the table kps_remember may hold
MaxRows == 2
\* the highest ranking the ratings service reports for a player
MaxRanking == 31
\* lines with a game link the bot is given in one run of the model
MaxGames == 2
\* seconds of the clock in one run of the model
MaxTime == 10

\* ------------------------------------------------------------ environment

\* Python's None for an optional value: <<>>, and <<v>> for the value v
None == <<>>

\* HTTP statuses a server answers with: success, a 3xx that is neither
\* success nor an error, a client error and a server error
Statuses == {200, 304, 404, 500}

\* what one oauth.get/post/put does: raise TokenExpiredError before sending,
\* or come back with a response
Outcomes ==
    {[exc |-> "TokenExpiredError", status |-> 0]}
        \cup {[exc |-> "none", status |-> s] : s \in Statuses}

\* the environment of one kps_strim_* call: the first attempt, the token
\* endpoint, the second attempt
\* (a part of the environment the call never consults is pinned, so that no
\* two environments give the same run)
KpsEnvs ==
    {e \in [first : Outcomes, fetch : {"ok", "OAuth2Error"}, retry : Outcomes] :
        /\ e.first.exc = "none" => e.fetch = "ok"
        /\ (e.first.exc = "none" \/ e.fetch # "ok") => e.retry = e.first}

TOKEN_URL == "https://strim.pmrowla.com/o/token/"
STRIMS_URL == "https://strim.pmrowla.com/api/v1/strims/?format=json"
CHANNEL_URL == "https://strim.pmrowla.com/api/v1/channels/{}/?format=json"
STRIMS_POST_URL == "https://strim.pmrowla.com/api/v1/strims/"
LIVE_URL == "https://secure.pmrowla.com/live"
STRIM_HOME == "https://strim.pmrowla.com/"
STRIM_PAGE == "https://strim.pmrowla.com/strims/{}/"

\* ------------------------------------------------------------------ helpers

RECURSIVE Join(_, _)
\* sep.join(msgs) on strings
Join(msgs, sep) ==
    IF msgs = <<>> THEN ""
    ELSE IF Len(msgs) = 1 THEN msgs[1]
    ELSE msgs[1] \o sep \o Join(Tail(msgs), sep)

\* Response.raise_for_status(): HTTPError for a 4xx or 5xx status
raise_for_status(status) == status >= 400 /\ status < 600

\* short_url(sopel, url): without an API key the url itself; with one,
\* googl.short(url) asks the shortener, which hands back a short url or
\* raises (short tells which)
short_url(key, url, short) ==
    IF ~key THEN [url |-> url, exc |-> "none"]
    ELSE IF short = "ok"
    THEN [url |-> "https://goo.gl/?" \o url, exc |-> "none"]
    ELSE [url |-> "", exc |-> "ShorteningErrorException"]

\* one HTTP exchange as the handlers' trace records it
Exchange(call, url, tok, exc, status) ==
    [call |-> call, url |-> url, tok |-> tok, exc |-> exc, status |-> status]

\* --------------------------------------------------------- kps-strim client

\* _kps_oauth(sopel): a session that carries the token held in memory
_kps_oauth(tok) == [token |-> tok]

\* mutant: the fetched token is used by the session but never stored
kps_expired_token_not_stored(tok, oauth, n, fetch) ==
    IF fetch = "ok"
    THEN [exc |-> "none", oauth |-> [token |-> n + 1], token |-> tok,
          fetched |-> 1,
          events |-> <<Exchange("fetch_token", TOKEN_URL, oauth.token, "none", 200)>>]
    ELSE [exc |-> fetch, oauth |-> oauth, token |-> tok, fetched |-> 0,
          events |-> <<Exchange("fetch_token", TOKEN_URL, oauth.token, fetch, 0)>>]

\* mutant: a failing fetch leaves no token in memory
kps_expired_token_cleared(tok, oauth, n, fetch) ==
    IF fetch = "ok"
    THEN [exc |-> "none", oauth |-> [token |-> n + 1], token |-> n + 1,
          fetched |-> 1,
          events |-> <<Exchange("fetch_token", TOKEN_URL, oauth.token, "none", 200)>>]
    ELSE [exc |-> fetch, oauth |-> oauth, token |-> 0, fetched |-> 0,
          events |-> <<Exchange("fetch_token", TOKEN_URL, oauth.token, fetch, 0)>>]

\* _kps_expired_token(sopel, oauth): fetch a token with the session and
\* store it; a failing fetch raises before the store
_kps_expired_token(tok, oauth, n, fetch) ==
    IF fetch = "ok"
    THEN [exc |-> "none", oauth |-> [token |-> n + 1], token |-> n + 1,
          fetched |-> 1,
          events |-> <<Exchange("fetch_token", TOKEN_URL, oauth.token, "none", 200)>>]
    ELSE [exc |-> fetch, oauth |-> oauth, token |-> tok, fetched |-> 0,
          events |-> <<Exchange("fetch_token", TOKEN_URL, oauth.token, fetch, 0)>>]

\* r.raise_for_status(); return r
ReturnOrRaise(tok, fetched, events, status) ==
    [token |-> tok, fetched |-> fetched, events |-> events,
     exc |-> IF raise_for_status(status) THEN "HTTPError" ELSE "none",
     r |-> IF raise_for_status(status) THEN None ELSE <<status>>]

\* an exception escaping a helper
Escape(tok, fetched, events, exc) ==
    [token |-> tok, fetched |-> fetched, events |-> events, exc |-> exc,
     r |-> None]

\* mutant: a retry that signals expiry is tried once more
Retry_again(call, url, env, a1, f) ==
    IF f.exc # "none"
    THEN [token |-> f.token, fetched |-> f.fetched,
          events |-> <<a1>> \o f.events, exc |-> f.exc, r |-> None]
    ELSE IF env.retry.exc = "TokenExpiredError"
    THEN [token |-> f.token, fetched |-> f.fetched,
          events |-> <<a1>> \o f.events
                        \o <<Exchange(call, url, f.oauth.token, env.retry.exc,
                                      env.retry.status),
                             Exchange(call, url, f.oauth.token, "none", 200)>>,
          exc |-> "none", r |-> <<200>>]
    ELSE [token |-> f.token, fetched |-> f.fetched,
          events |-> <<a1>> \o f.events
                        \o <<Exchange(call, url, f.oauth.token, env.retry.exc,
                                      env.retry.status)>>,
          exc |-> IF raise_for_status(env.retry.status) THEN "HTTPError"
                  ELSE "none",
          r |-> IF raise_for_status(env.retry.status) THEN None
                ELSE <<env.retry.status>>]

\* the except branch once _kps_expired_token has run with result f:
\* r = oauth.<call>(url), outside the try block, then raise_for_status
Retry(call, url, env, a1, f) ==
    IF f.exc # "none"
    THEN Escape(f.token, f.fetched, <<a1>> \o f.events, f.exc)
    ELSE IF env.retry.exc = "TokenExpiredError"
    THEN Escape(f.token, f.fetched,
                <<a1>> \o f.events
                    \o <<Exchange(call, url, f.oauth.token, env.retry.exc,
                                  env.retry.status)>>,
                env.retry.exc)
    ELSE ReturnOrRaise(f.token, f.fetched,
                       <<a1>> \o f.events
                           \o <<Exchange(call, url, f.oauth.token,
                                         env.retry.exc, env.retry.status)>>,
                       env.retry.status)

\* the body the three helpers share, call = the session method they use:
\*   oauth = _kps_oauth(sopel)
\*   try: r = oauth.<call>(url)
\*   except TokenExpiredError: _kps_expired_token(sopel, oauth); r = oauth.<call>(url)
\*   r.raise_for_status(); return r
Request(call, tok, n, url, env) ==
    IF env.first.exc = "TokenExpiredError"
    THEN Retry(call, url, env,
               Exchange(call, url, _kps_oauth(tok).token, env.first.exc,
                        env.first.status),
               _kps_expired_token(tok, _kps_oauth(tok), n, env.fetch))
    ELSE ReturnOrRaise(tok, 0,
                       <<Exchange(call, url, _kps_oauth(tok).token,
                                  env.first.exc, env.first.status)>>,
                       env.first.status)

\* kps_strim_get(sopel, url)
kps_strim_get(tok, n, url, env) == Request("get", tok, n, url, env)

\* kps_strim_post(sopel, url, data=None)
kps_strim_post(tok, n, url, env) == Request("post", tok, n, url, env)

\* kps_strim_put(sopel, url, data)
kps_strim_put(tok, n, url, env) == Request("put", tok, n, url, env)

\* ------------------------------------------------------------ live watcher

\* sopel.channels, in the bot's iteration order
channels == <<"#kpop", "#strim">>

\* bodies the status probe may return; below = the tags of the elements
\* under the root (the root itself is not among them)
Docs ==
    {[wellformed |-> FALSE, root |-> "", below |-> {}],
     [wellformed |-> TRUE, root |-> "rtmp", below |-> {"server", "active"}],
     [wellformed |-> TRUE, root |-> "rtmp", below |-> {"server"}],
     [wellformed |-> TRUE, root |-> "active", below |-> {}]}

NoDoc == [wellformed |-> FALSE, root |-> "", below |-> {}]

\* what requests.get(url, params) of the probe does: only a 200 response
\* carries a document (a 304 has no body, the body of an error response is
\* never read)
Probes ==
    {[exc |-> "ConnectionError", status |-> 0, text |-> NoDoc]}
        \cup {p \in [exc : {"none"}, status : Statuses, text : Docs] :
                 p.status # 200 => p.text = NoDoc}

\* root.find('.//active') is not None
find_active(root) == "active" \in root.below

\* Response.json() of the strims listing: not JSON, count = 0, count > 0
StrimsBodies == {"invalid", "empty", "one"}
\* Response.json() of the channel
ChannelBodies == {"invalid", "channel"}

PinnedEnv ==
    [first |-> [exc |-> "none", status |-> 200], fetch |-> "ok",
     retry |-> [exc |-> "none", status |-> 200]]

\* the environment of one _next_strim: the listing request and its body,
\* the channel request and its body (parts never consulted are pinned)
NextStrimRequests ==
    {e \in [strims : KpsEnvs, data : StrimsBodies, channel : KpsEnvs,
            cdata : ChannelBodies] :
        /\ kps_strim_get(0, 0, STRIMS_URL, e.strims).exc # "none"
              => e.data = "invalid"
        /\ e.data # "one" => e.channel = PinnedEnv
        /\ (e.data # "one"
              \/ kps_strim_get(0, 0, CHANNEL_URL, e.channel).exc # "none")
              => e.cdata = "invalid"}

\* ... and what the shortener does (short); without an API key it is not
\* asked
NextStrimPlain ==
    {[strims |-> e.strims, data |-> e.data, channel |-> e.channel,
      cdata |-> e.cdata, short |-> "ok"] : e \in NextStrimRequests}

\* with an API key short_url asks it for the page of the strim, at the end
\* of _next_strim
NextStrimShortened ==
    NextStrimPlain
        \cup {[strims |-> e.strims, data |-> e.data, channel |-> e.channel,
               cdata |-> e.cdata, short |-> "error"] :
                 e \in {b \in NextStrimRequests : b.cdata = "channel"}}

\* the environments of one _next_strim
NextStrimEnvs(key) == IF key THEN NextStrimShortened ELSE NextStrimPlain

\* what _next_strim hands back: its messages, or the exception it let escape
NextStrimResult(msgs, exc, tok, fetched, events) ==
    [msgs |-> msgs, exc |-> exc, token |-> tok, fetched |-> fetched,
     events |-> events]

\* _next_strim from the channel request r2 on (data['count'] is not 0)
NextStrimChannel(key, env, r1, r2) ==
    IF r2.exc # "none"
    THEN NextStrimResult(<<>>, r2.exc, r2.token, r1.fetched + r2.fetched,
                         r1.events \o r2.events)
    ELSE IF env.cdata = "invalid"
    THEN NextStrimResult(<<>>, "ValueError", r2.token,
                         r1.fetched + r2.fetched, r1.events \o r2.events)
    ELSE IF short_url(key, STRIM_PAGE, env.short).exc # "none"
    THEN NextStrimResult(<<>>, short_url(key, STRIM_PAGE, env.short).exc,
                         r2.token, r1.fetched + r2.fetched,
                         r1.events \o r2.events)
    ELSE NextStrimResult(<<"Next strim in {}", "{} - {}: {}",
                           short_url(key, STRIM_PAGE, env.short).url>>,
                         "none", r2.token, r1.fetched + r2.fetched,
                         r1.events \o r2.events)

\* _next_strim from the listing request r1 on
NextStrimListing(n, key, env, r1) ==
    IF r1.exc # "none"
    THEN NextStrimResult(<<>>, r1.exc, r1.token, r1.fetched, r1.events)
    ELSE IF env.data = "invalid"
    THEN NextStrimResult(<<>>, "ValueError", r1.token, r1.fetched, r1.events)
    ELSE IF env.data = "one"
    THEN NextStrimChannel(key, env, r1,
                          kps_strim_get(r1.token, n + r1.fetched, CHANNEL_URL,
                                        env.channel))
    ELSE NextStrimResult(<<"No scheduled strims">>, "none", r1.token,
                         r1.fetched, r1.events)

\* _next_strim(sopel)
_next_strim(tok, n, key, env) ==
    NextStrimListing(n, key, env, kps_strim_get(tok, n, STRIMS_URL, env.strims))

\* for chan in sopel.channels: sopel.say(' | '.join(msgs), chan)
SayAll(msgs) ==
    IF msgs = <<>> THEN <<>>
    ELSE [i \in 1..Len(channels) |->
            [to |-> channels[i], text |-> Join(msgs, " | ")]]

\* what a poll or a command leaves behind
LiveResult(lv, tok, fetched, out, exc, events) ==
    [live |-> lv, token |-> tok, fetched |-> fetched, said |-> out,
     exc |-> exc, events |-> events]

\* the else branch of _check_live when live and notify hold, ns being the
\* result of _next_strim: an exception leaves msgs.extend(...) before the
\* state is stored and before anything is said
CheckLiveFinished(stored, p, ns) ==
    IF ns.exc # "none"
    THEN LiveResult(stored, ns.token, ns.fetched, <<>>, ns.exc, <<p>> \o ns.events)
    ELSE LiveResult(FALSE, ns.token, ns.fetched,
                    SayAll(<<"Strim finished">> \o ns.msgs), "none",
                    <<p>> \o ns.events)

\* the branch of _check_live for a probe that found the strim active: when
\* it is to announce that, short_url runs before the state is stored, an
\* exception of it leaves _check_live with the state as it was and nothing
\* said; su is what short_url does
CheckLiveActive(stored, announce, tok, su, p) ==
    IF ~announce THEN LiveResult(TRUE, tok, 0, <<>>, "none", <<p>>)
    ELSE IF su.exc # "none"
    THEN LiveResult(stored, tok, 0, <<>>, su.exc, <<p>>)
    ELSE LiveResult(TRUE, tok, 0, SayAll(<<"Strim is now live", su.url>>),
                    "none", <<p>>)

\* mutant: a probe that fails is taken as "not live"
CheckLiveProbed_failure_is_down(stored, tok, n, key, notify, probe, env, p) ==
    IF probe.exc # "none"
    THEN LiveResult(FALSE, tok, 0, <<>>, probe.exc, <<p>>)
    ELSE IF raise_for_status(probe.status)
    THEN LiveResult(FALSE, tok, 0, <<>>, "HTTPError", <<p>>)
    ELSE IF ~probe.text.wellformed
    THEN LiveResult(FALSE, tok, 0, <<>>, "ParseError", <<p>>)
    ELSE IF find_active(probe.text)
    THEN CheckLiveActive(stored, ~stored /\ notify, tok, short_url(key, STRIM_HOME, env.short), p)
    ELSE IF stored /\ notify
    THEN CheckLiveFinished(stored, p, _next_strim(tok, n, key, env))
    ELSE LiveResult(FALSE, tok, 0, <<>>, "none", <<p>>)

\* _check_live from the probe's response on, p being the probe's exchange
CheckLiveProbed(stored, tok, n, key, notify, probe, env, p) ==
    IF probe.exc # "none"
    THEN LiveResult(stored, tok, 0, <<>>, probe.exc, <<p>>)
    ELSE IF raise_for_status(probe.status)
    THEN LiveResult(stored, tok, 0, <<>>, "HTTPError", <<p>>)
    ELSE IF ~probe.text.wellformed
    THEN LiveResult(stored, tok, 0, <<>>, "ParseError", <<p>>)
    ELSE IF find_active(probe.text)
    THEN CheckLiveActive(stored, ~stored /\ notify, tok, short_url(key, STRIM_HOME, env.short), p)
    ELSE IF stored /\ notify
    THEN CheckLiveFinished(stored, p, _next_strim(tok, n, key, env))
    ELSE LiveResult(FALSE, tok, 0, <<>>, "none", <<p>>)

\* _check_live(sopel, notify=True); stored = memory['kps_strim']['live']
_check_live(stored, tok, n, key, notify, probe, env) ==
    CheckLiveProbed(stored, tok, n, key, notify, probe, env,
                    Exchange("get", LIVE_URL, 0, probe.exc, probe.status))

\* sopel.say(' | '.join(msgs)): to where the command came from
Say(msgs) == <<[to |-> "sender", text |-> Join(msgs, " | ")]>>

\* strim when the strim is down, ns being the result of _next_strim
StrimDown(c, ns) ==
    IF ns.exc # "none"
    THEN LiveResult(c.live, ns.token, c.fetched + ns.fetched, <<>>, ns.exc,
                    c.events \o ns.events)
    ELSE LiveResult(c.live, ns.token, c.fetched + ns.fetched,
                    Say(<<"Strim is down">> \o ns.msgs), "none",
                    c.events \o ns.events)

\* strim after _check_live(sopel, notify=False) has run with result c
StrimChecked(n, key, env, c) ==
    IF c.exc # "none" THEN c
    ELSE IF c.live /\ short_url(key, STRIM_HOME, env.short).exc # "none"
    THEN LiveResult(c.live, c.token, c.fetched, <<>>,
                    short_url(key, STRIM_HOME, env.short).exc, c.events)
    ELSE IF c.live
    THEN LiveResult(c.live, c.token, c.fetched,
                    Say(<<"Strim is live",
                          short_url(key, STRIM_HOME, env.short).url>>),
                    "none", c.events)
    ELSE StrimDown(c, _next_strim(c.token, n + c.fetched, key, env))

\* strim(sopel, trigger): the manual command
strim_command(stored, tok, n, key, probe, env) ==
    StrimChecked(n, key, env,
                 _check_live(stored, tok, n, key, FALSE, probe, env))

\* the environments a poll or a command can consult: _next_strim runs only
\* for an inactive probe, and in a poll only when the stored state is live;
\* the shortener is asked only with an API key, for an active probe (in a
\* poll only when the stored state is down) or at the end of _next_strim
LiveEnvs(stored, key, notify, probe) ==
    IF probe.exc = "none" /\ ~raise_for_status(probe.status)
       /\ probe.text.wellformed /\ ~find_active(probe.text)
       /\ (notify => stored)
    THEN NextStrimEnvs(key)
    ELSE {[strims |-> PinnedEnv, data |-> "invalid", channel |-> PinnedEnv,
           cdata |-> "invalid", short |-> short] :
          short \in IF /\ key
                       /\ probe.exc = "none" /\ ~raise_for_status(probe.status)
                       /\ probe.text.wellformed /\ find_active(probe.text)
                       /\ (notify => ~stored)
                    THEN {"ok", "error"} ELSE {"ok"}}

\* ---------------------------------------------------------------- ogs lookups

OGS_REFRESH_URL == "http://online-go.com/oauth2/access_token"
OGS_TOKEN_URL == "https://online-go.com/oauth2/access_token"
OGS_PLAYER_URL == "https://online-go.com/api/v1/players/"
OGS_SEARCH_URL == "https://online-go.com/api/v1/players?username="
OGS_GAME_URL == "https://online-go.com/api/v1/games/"
OGS_PROFILE_PAGE == "https://online-go.com/user/view/"
OGS_GAME_PAGE == "https://online-go.com/game/"

\* what a lookup leaves behind: the token in memory, the exception that
\* escaped, the exchanges made and the text it returned
Looked(tok, exc, events, text) ==
    [token |-> tok, exc |-> exc, events |-> events, text |-> text]

\* ogs_get(sopel, url): the session refreshes an expired token by itself and
\* hands the new one to save_token; then r = client.get(url) and
\* r.raise_for_status()
ogs_get(tok, url, env) ==
    IF env.refresh = "none"
    THEN Looked(tok,
                IF raise_for_status(env.status) THEN "HTTPError" ELSE "none",
                <<Exchange("get", url, tok, "none", env.status)>>, "")
    ELSE IF env.refresh = "ok"
    THEN Looked(tok + 1,
                IF raise_for_status(env.status) THEN "HTTPError" ELSE "none",
                <<Exchange("refresh_token", OGS_REFRESH_URL, tok, "none", 200),
                  Exchange("get", url, tok + 1, "none", env.status)>>, "")
    ELSE Looked(tok, env.refresh,
                <<Exchange("refresh_token", OGS_REFRESH_URL, tok, env.refresh, 0)>>,
                "")

\* mutant: 30 is still a Kyu rank
ogs_display_rank_late(val) ==
    IF val <= 30
    THEN ToString(30 - val) \o " Kyu"
    ELSE ToString((val - 30) + 1) \o " Dan"

\* ogs_display_rank(val)
ogs_display_rank(val) ==
    IF val < 30
    THEN ToString(30 - val) \o " Kyu"
    ELSE ToString((val - 30) + 1) \o " Dan"

\* lines 313-319: the message for a player
player_msg(player) ==
    player.username \o " (" \o ogs_display_rank(player.ranking) \o ") | "
        \o OGS_PROFILE_PAGE \o ToString(player.id)

\* lines 306-319, g = the ogs_get call that returned a response
UserFetched(g, user, body) ==
    IF body.kind = "invalid"
    THEN Looked(g.token, "ValueError", g.events, "")
    ELSE IF body.kind \in {"results", "player"}
    THEN Looked(g.token, "none", g.events, player_msg(body.player))
    ELSE Looked(g.token, "none", g.events,
                "Could not fetch info for OGS player " \o user)

\* lines 302-305 and on, g = the ogs_get call
UserLooked(g, user, body) ==
    IF g.exc = "HTTPError"
    THEN Looked(g.token, "none", g.events, "No such player " \o user)
    ELSE IF g.exc # "none"
    THEN Looked(g.token, g.exc, g.events, "")
    ELSE UserFetched(g, user, body)

\* get_ogs_user_api(sopel, user); user is the text format() gives it, by_id
\* tells that it was an int
get_ogs_user_api(tok, user, by_id, env) ==
    UserLooked(ogs_get(tok,
                       (IF by_id THEN OGS_PLAYER_URL ELSE OGS_SEARCH_URL) \o user,
                       env),
               user, env.body)

\* lines 346-362: the message for a game
game_msg(data) ==
    data.name \o " (" \o (IF data.ranked THEN "Ranked" ELSE "Unranked")
        \o ") | " \o data.black.username \o " ("
        \o ogs_display_rank(data.black.ranking) \o ") vs "
        \o data.white.username \o " ("
        \o ogs_display_rank(data.white.ranking) \o ") | "
        \o OGS_GAME_PAGE \o ToString(data.id)

\* lines 341-362, g = the ogs_get call
GameLooked(g, game, body) ==
    IF g.exc = "HTTPError"
    THEN Looked(g.token, "none", g.events, "No such game " \o game)
    ELSE IF g.exc # "none"
    THEN Looked(g.token, g.exc, g.events, "")
    ELSE IF body.kind = "invalid"
    THEN Looked(g.token, "ValueError", g.events, "")
    ELSE Looked(g.token, "none", g.events, game_msg(body.game))

\* get_ogs_game_api(sopel, game)
get_ogs_game_api(tok, game, env) ==
    GameLooked(ogs_get(tok, OGS_GAME_URL \o game, env), game, env.body)

\* --------------------------------------------------------- delayed lookups

\* the delay get_ogs_game gives sched.enter, in seconds
DELAY == 5

\* a time for the event that makes it due at once
sched_enter_now(t) == t

\* sched.enter(5, 1, delayed_say, ...), its first statement, with the clock
\* at t: time = self.timefunc() + delay
sched_enter(t) == t + DELAY

\* sched.enterabs(time, 1, delayed_say, ...) in the handler of the line m,
\* under the lock of the scheduler: the event gets the next sequence number
sched_enterabs(q, time, seq, m) ==
    q \cup {[time |-> time, seq |-> seq, line |-> m]}

\* the event sched.run finds at the head of the queue: the earliest one,
\* and of events due at one time (all have priority 1) the one with the
\* lowest sequence number
sched_head(q) ==
    CHOOSE e \in q :
        \A f \in q : e.time < f.time \/ (e.time = f.time /\ e.seq <= f.seq)

\* delayed_say(sopel, func, *args): sopel.say(func(sopel, *args)), where r
\* is what func left behind; nothing is said when func raised
delayed_say(r) ==
    IF r.exc = "none" THEN <<[to |-> "sender", text |-> r.text]>> ELSE <<>>

\* ------------------------------------------------------------- tv schedule

STRIM_URL == "https://strim.pmrowla.com/api/v1/strims/{}/?format=json"

\* DEFAULT_STATIONS, in the order of the dict
DEFAULT_STATIONS ==
    <<[slug |-> "mbc-every1", name |-> "MBC Every1", channel_num |-> 1],
      [slug |-> "sbs", name |-> "SBS", channel_num |-> 5],
      [slug |-> "kbs2", name |-> "KBS2", channel_num |-> 7],
      [slug |-> "kbs1", name |-> "KBS1", channel_num |-> 9],
      [slug |-> "mbc", name |-> "MBC", channel_num |-> 11],
      [slug |-> "jtbc", name |-> "JTBC", channel_num |-> 15],
      [slug |-> "tvn", name |-> "tvn", channel_num |-> 17],
      [slug |-> "mnet", name |-> "Mnet", channel_num |-> 27],
      [slug |-> "sbs-fune", name |-> "SBS FunE", channel_num |-> 43],
      [slug |-> "mbc-music", name |-> "MBC Music", channel_num |-> 97],
      [slug |-> "arirang-tv", name |-> "Arirang TV", channel_num |-> 206]>>

\* the first station with the programme's channel number, '' when none has
\* it: for slug, c in tv_stations.items(): if c.channel_num == ...: break
channel_slug(stations, chnl) ==
    IF \E i \in 1..Len(stations) : stations[i].channel_num = chnl
    THEN stations[CHOOSE i \in 1..Len(stations) :
                     /\ stations[i].channel_num = chnl
                     /\ \A j \in 1..(i - 1) : stations[j].channel_num # chnl].slug
    ELSE ""

\* strptime(BROAD_DATE_TM, '%Y.%m.%d %H:%M') then strftime('%Y%m%d-%H%M'),
\* on the characters of a well-formed 'YYYY.MM.DD HH:MM'
slug_time(tm) ==
    SubSeq(tm, 1, 4) \o SubSeq(tm, 6, 7) \o SubSeq(tm, 9, 10) \o <<"-">>
        \o SubSeq(tm, 12, 13) \o SubSeq(tm, 15, 16)

\* strim_data['slug'] = '{}-{}'.format(strim_slug, start_time.strftime(...))
strim_data_slug(strim_slug, program) ==
    strim_slug \o <<"-">> \o slug_time(program.BROAD_DATE_TM)

\* e.response.status_code of the HTTPError a kps_strim_* call raised: the
\* status of its last exchange
status_code(r) == r.events[Len(r.events)].status

\* what schedule_program_strim leaves behind; msgs holds, for each str(e)
\* appended, the status that text names
Scheduled(tok, fetched, events, exc, msgs) ==
    [token |-> tok, fetched |-> fetched, events |-> events, exc |-> exc,
     msgs |-> msgs]

\* lines 669-678 when exists is False, p = the kps_strim_post call
SchedulePosted(g, p, msgs) ==
    IF p.exc = "none"
    THEN Scheduled(p.token, g.fetched + p.fetched, g.events \o p.events,
                   "none", msgs)
    ELSE IF p.exc = "HTTPError"
    THEN Scheduled(p.token, g.fetched + p.fetched, g.events \o p.events,
                   "none", Append(msgs, status_code(p)))
    ELSE Scheduled(p.token, g.fetched + p.fetched, g.events \o p.events,
                   p.exc, msgs)

\* mutant: every HTTPError of the existence check counts as "not scheduled"
ScheduleChecked_any_error(g, n, env) ==
    IF g.exc = "none"
    THEN Scheduled(g.token, g.fetched, g.events, "none", <<>>)
    ELSE IF g.exc = "HTTPError"
    THEN SchedulePosted(g, kps_strim_post(g.token, n + g.fetched,
                                          STRIMS_POST_URL, env.post), <<>>)
    ELSE Scheduled(g.token, g.fetched, g.events, g.exc, <<>>)

\* lines 654-678, g = the kps_strim_get call of the existence check
ScheduleChecked(g, n, env) ==
    IF g.exc = "none"
    THEN Scheduled(g.token, g.fetched, g.events, "none", <<>>)
    ELSE IF g.exc = "HTTPError"
    THEN IF status_code(g) = 404
         THEN SchedulePosted(g, kps_strim_post(g.token, n + g.fetched,
                                               STRIMS_POST_URL, env.post), <<>>)
         ELSE Scheduled(g.token, g.fetched, g.events, "none",
                        <<status_code(g)>>)
    ELSE Scheduled(g.token, g.fetched, g.events, g.exc, <<>>)

\* schedule_program_strim(sopel, strim_slug, program)
schedule_program_strim(tok, n, stations, strim_slug, program, env) ==
    IF channel_slug(stations, program.CHNL_NO) = ""
    THEN Scheduled(tok, 0, <<>>, "none", <<>>)
    ELSE ScheduleChecked(kps_strim_get(tok, n, STRIM_URL, env.get), n, env)

\* ---------------------------------------------------------------- tv shows

CHANNELS_URL == "https://strim.pmrowla.com/api/v1/channels/?format=json"

\* DEFAULT_SHOWS, in the order of the dict. A character outside ASCII is
\* written the way Python's unicode_escape writes it, here and in every
\* other text of the model: the names are The Show, Weekly Idol, Show
\* Champion, M COUNTDOWN, Music Bank, Show! Music Core and SBS Inkigayo in
\* Hangul
DEFAULT_SHOWS ==
    <<[shortname |-> "theshow", name |-> "\\ub354\\uc1fc",
       station |-> "sbs-fune", weekday |-> 1],
      [shortname |-> "weekly",
       name |-> "\\uc8fc\\uac04 \\uc544\\uc774\\ub3cc",
       station |-> "mbc-every1", weekday |-> 2],
      [shortname |-> "showchamp",
       name |-> "\\uc1fc \\ucc54\\ud53c\\uc5b8",
       station |-> "mbc-every1", weekday |-> 2],
      [shortname |-> "mka", name |-> "M COUNTDOWN", station |-> "mnet",
       weekday |-> 3],
      [shortname |-> "mubank", name |-> "\\ubba4\\uc9c1\\ubc45\\ud06c",
       station |-> "kbs2", weekday |-> 4],
      [shortname |-> "mucore",
       name |-> "\\uc1fc! \\uc74c\\uc545\\uc911\\uc2ec",
       station |-> "mbc", weekday |-> 5],
      [shortname |-> "inki", name |-> "SBS \\uc778\\uae30\\uac00\\uc694",
       station |-> "sbs", weekday |-> 6]>>

\* the stations and the shows in memory (dicts, in insertion order) and the
\* rows of the tables kps_tv_station and kps_tv_show
TvState(stations, shows, station_rows, show_rows) ==
    [tv_stations |-> stations, tv_shows |-> shows,
     kps_tv_station |-> station_rows, kps_tv_show |-> show_rows]

\* shortname in sopel.memory['tv_stations']
in_stations(stations, shortname) ==
    \E i \in DOMAIN stations : stations[i].slug = shortname

\* shortname in sopel.memory['tv_shows']
in_shows(shows, shortname) ==
    \E i \in DOMAIN shows : shows[i].shortname = shortname

\* add_tv_station(sopel, shortname, name, channel_num, update_db=True): the
\* dict entry is set, and the table gets an UPDATE of the rows of that
\* shortname when the dict had it, an INSERT otherwise
add_tv_station(T, shortname, name, channel_num, update_db) ==
    LET station == [slug |-> shortname, name |-> name,
                    channel_num |-> channel_num]
        old_station == in_stations(T.tv_stations, shortname)
        set(d) == [i \in DOMAIN d |->
                      IF d[i].slug = shortname THEN station ELSE d[i]]
    IN  [T EXCEPT
            !.tv_stations = IF old_station THEN set(@) ELSE Append(@, station),
            !.kps_tv_station = IF ~update_db THEN @
                               ELSE IF old_station THEN set(@)
                               ELSE Append(@, station)]

\* mutant: the show is stored whatever its station
add_tv_show_any_station(T, shortname, name, station, weekday, update_db) ==
    LET show == [shortname |-> shortname, name |-> name, station |-> station,
                 weekday |-> weekday]
        old_show == in_shows(T.tv_shows, shortname)
        set(d) == [i \in DOMAIN d |->
                      IF d[i].shortname = shortname THEN show ELSE d[i]]
    IN  [T EXCEPT
            !.tv_shows = IF old_show THEN set(@) ELSE Append(@, show),
            !.kps_tv_show = IF ~update_db THEN @
                            ELSE IF old_show THEN set(@)
                            ELSE Append(@, show)]

\* add_tv_show(sopel, shortname, name, station, weekday, update_db=True):
\* nothing for a station that is not in tv_stations; else the dict entry is
\* set, and the table gets an UPDATE of the rows of that shortname when the
\* dict had it, an INSERT otherwise
add_tv_show(T, shortname, name, station, weekday, update_db) ==
    IF ~in_stations(T.tv_stations, station) THEN T
    ELSE LET show == [shortname |-> shortname, name |-> name,
                      station |-> station, weekday |-> weekday]
             old_show == in_shows(T.tv_shows, shortname)
             set(d) == [i \in DOMAIN d |->
                           IF d[i].shortname = shortname THEN show ELSE d[i]]
         IN  [T EXCEPT
                 !.tv_shows = IF old_show THEN set(@) ELSE Append(@, show),
                 !.kps_tv_show = IF ~update_db THEN @
                                 ELSE IF old_show THEN set(@)
                                 ELSE Append(@, show)]

RECURSIVE load_stations(_, _, _, _)
\* the loops of setup_tv over stations: the rows of the table are put into
\* the dict (from_db), the default stations and the channels of the strim
\* server are added, and stored, when the dict does not have them
load_stations(T, list, i, from_db) ==
    IF i > Len(list) THEN T
    ELSE load_stations(
             IF from_db
             THEN add_tv_station(T, list[i].slug, list[i].name,
                                 list[i].channel_num, FALSE)
             ELSE IF in_stations(T.tv_stations, list[i].slug) THEN T
             ELSE add_tv_station(T, list[i].slug, list[i].name,
                                 list[i].channel_num, TRUE),
             list, i + 1, from_db)

RECURSIVE load_shows(_, _, _, _)
\* the loops of setup_tv over shows: the rows of the table (from_db), then
\* the default shows the dict does not have
load_shows(T, list, i, from_db) ==
    IF i > Len(list) THEN T
    ELSE load_shows(
             IF from_db
             THEN add_tv_show(T, list[i].shortname, list[i].name,
                              list[i].station, list[i].weekday, FALSE)
             ELSE IF in_shows(T.tv_shows, list[i].shortname) THEN T
             ELSE add_tv_show(T, list[i].shortname, list[i].name,
                              list[i].station, list[i].weekday, TRUE),
             list, i + 1, from_db)

\* setup_tv(sopel) up to the request for the channels: tv_stations is new
\* and holds the rows of the table and the default stations
StationsLoaded(station_rows, show_rows) ==
    load_stations(
        load_stations(TvState(<<>>, <<>>, station_rows, show_rows),
                      station_rows, 1, TRUE),
        DEFAULT_STATIONS, 1, FALSE)

\* setup_tv(sopel) after the channels came: they are added, tv_shows is new
\* and gets the rows of the table, then the default shows
ShowsLoaded(T, results) ==
    load_shows(
        load_shows([load_stations(T, results, 1, FALSE)
                        EXCEPT !.tv_shows = <<>>],
                   T.kps_tv_show, 1, TRUE),
        DEFAULT_SHOWS, 1, FALSE)

\* setup_tv(sopel) on the tables of the database and a memory that has no
\* tv_shows yet: g is what kps_strim_get left behind, env.json whether its
\* body is JSON and env.results the channels it lists; an exception of the
\* request or of r.json() leaves setup_tv before tv_shows is set
setup_tv(station_rows, show_rows, g, env) ==
    IF g.exc # "none"
    THEN [tv |-> StationsLoaded(station_rows, show_rows), exc |-> g.exc]
    ELSE IF ~env.json
    THEN [tv |-> StationsLoaded(station_rows, show_rows), exc |-> "ValueError"]
    ELSE [tv |-> ShowsLoaded(StationsLoaded(station_rows, show_rows),
                             env.results),
          exc |-> "none"]

\* int(weekday) of a text of one character: the digit, or ValueError
is_int(w) == \E n \in 0..9 : ToString(n) = w
int(w) == CHOOSE n \in 0..9 : ToString(n) = w

WEEKDAYS ==
    <<"Monday", "Tuesday", "Wednesday", "Thursday", "Friday", "Saturday",
      "Sunday">>

\* ------------------------------------------------------- remember / forget

\* text is a sequence of characters
WS == {" "}

\* str.lower() on the characters the model uses (re.I compares caselessly)
lower(c) ==
    CASE c = "S" -> "s" [] c = "H" -> "h" [] c = "O" -> "o" [] c = "W" -> "w"
      [] OTHER -> c

RECURSIVE lstrip(_)
\* str.lstrip()
lstrip(s) == IF s # <<>> /\ Head(s) \in WS THEN lstrip(Tail(s)) ELSE s

RECURSIVE rstrip(_)
\* str.rstrip()
rstrip(s) ==
    IF s # <<>> /\ s[Len(s)] \in WS THEN rstrip(SubSeq(s, 1, Len(s) - 1)) ELSE s

\* str.strip()
strip(s) == rstrip(lstrip(s))

\* ':' in args
has_colon(s) == \E i \in 1..Len(s) : s[i] = ":"

\* s.split(':', 1) for an s that holds a colon: the text before the first
\* colon and the text after it
split_colon(s) ==
    LET i == CHOOSE k \in 1..Len(s) :
                 s[k] = ":" /\ \A m \in 1..(k - 1) : s[m] # ":"
    IN  <<SubSeq(s, 1, i - 1), SubSeq(s, i + 1, Len(s))>>

\* the dict sopel.memory['remember']: a sequence of items in insertion order
dict_keys(d) == [i \in 1..Len(d) |-> d[i].key]
dict_has(d, k) == \E i \in 1..Len(d) : d[i].key = k
\* d.get(k): <<>> for None, <<value>> otherwise
dict_get(d, k) ==
    IF dict_has(d, k)
    THEN <<d[CHOOSE i \in 1..Len(d) : d[i].key = k].value>>
    ELSE <<>>
\* d[k] = v: an existing key keeps its place
dict_set(d, k, v) ==
    IF dict_has(d, k)
    THEN [i \in 1..Len(d) |-> IF d[i].key = k THEN [key |-> k, value |-> v] ELSE d[i]]
    ELSE Append(d, [key |-> k, value |-> v])
\* del d[k]
dict_del(d, k) ==
    LET keep(item) == item.key # k IN SelectSeq(d, keep)

\* the truth value Python gives d.get(k): None and '' are false
truthy(got) == got # <<>> /\ got[1] # <<>>

\* UPDATE kps_remember SET response = ? WHERE remember = ?
sql_update(rows, k, v) ==
    [i \in 1..Len(rows) |->
        IF rows[i].remember = k THEN [remember |-> k, response |-> v] ELSE rows[i]]
\* INSERT INTO kps_remember (remember, response) VALUES (?, ?)
sql_insert(rows, k, v) == Append(rows, [remember |-> k, response |-> v])
\* DELETE FROM kps_remember WHERE remember = ?
sql_delete(rows, k) ==
    LET keep(row) == row.remember # k IN SelectSeq(rows, keep)

\* add_remember(sopel, remember, response, update_db=True)
add_remember(d, rows, k, v, update_db) ==
    [remember |-> dict_set(d, k, v),
     kps_remember |->
        IF update_db
        THEN IF truthy(dict_get(d, k))
             THEN sql_update(rows, k, v)
             ELSE sql_insert(rows, k, v)
        ELSE rows]

RECURSIVE load_rows(_, _, _)
\* for (remember, response) in cursor.fetchall(): add_remember(..., update_db=False)
load_rows(d, rows, i) ==
    IF i > Len(rows) THEN d
    ELSE load_rows(add_remember(d, rows, rows[i].remember, rows[i].response,
                                FALSE).remember,
                   rows, i + 1)

\* mutant: rows with an empty response are not loaded
setup_remember_skip_empty(rows) ==
    LET filled(row) == row.response # <<>> IN
        load_rows(<<>>, SelectSeq(rows, filled), 1)

\* setup_remember(sopel): the dict rebuilt from the rows of the table
setup_remember(rows) == load_rows(<<>>, rows, 1)

\* re.match(r'^(.*\s)?(?P<remember>{})(\s.*)?$'.format(remember), ...)
\* raises re.error: the pattern does not compile. Of the characters the
\* phrases here are made of (letters, '.', '(') only '(' can do that: with
\* no ')' after it the group it opens is never closed
re_error(phrase) == \E k \in 1..Len(phrase) : phrase[k] = "("

\* re.match(r'^(.*\s)?(?P<remember>{})(\s.*)?$'.format(remember), line, re.I)
\* for a phrase of letters and dots, whose pattern compiles: the phrase matches the
\* characters i .. i + Len - 1 of the line, what is before them is empty or
\* ends in whitespace, what is after them is empty or starts with whitespace
re_match(phrase, line) ==
    \E i \in 1..(Len(line) + 1) :
        /\ i + Len(phrase) - 1 <= Len(line)
        /\ \A k \in 1..Len(phrase) :
              \/ phrase[k] = "."
              \/ lower(phrase[k]) = lower(line[i + k - 1])
        /\ i = 1 \/ line[i - 1] \in WS
        /\ i + Len(phrase) > Len(line) \/ line[i + Len(phrase)] \in WS

\* the list matches of remember_respond, in the dict's order
matches_of(d, line) ==
    LET hit(item) == re_match(item.key, line) IN dict_keys(SelectSeq(d, hit))

COOLDOWN == 30
REPLAY == 15

\* mutant: the window is one second short
in_cooldown_short(last, time) == last # None /\ time - last[1] < COOLDOWN - 1

\* the first test of remember_respond: the line is within the cooldown
in_cooldown(last, time) == last # None /\ time - last[1] < COOLDOWN

RECURSIVE join_chars(_, _)
\* sep.join(keys) on character sequences
join_chars(keys, sep) ==
    IF keys = <<>> THEN <<>>
    ELSE IF Len(keys) = 1 THEN keys[1]
    ELSE keys[1] \o sep \o join_chars(Tail(keys), sep)

\* ------------------------------------------------------------------ actions

Pre == [token |-> token, issued |-> issued, live |-> live]

\* a caller invokes one of kps_strim_get / kps_strim_post / kps_strim_put
KpsCall(name, r, url, env) ==
    /\ issued + r.fetched <= MaxTokens
    /\ token' = r.token
    /\ issued' = issued + r.fetched
    /\ op' = [name |-> name, arg |-> [url |-> url, env |-> env], pre |-> Pre]
    /\ said' = <<>>
    /\ raised' = r.exc
    /\ returned' = r.r
    /\ http' = r.events
    /\ UNCHANGED <<live, google_api_key, rememberVars, serviceVars, schedVars, tvVars>>

call_kps_strim_get ==
    \E env \in KpsEnvs, url \in {STRIMS_URL, CHANNEL_URL} :
        KpsCall("kps_strim_get", kps_strim_get(token, issued, url, env), url, env)

call_kps_strim_post ==
    \E env \in KpsEnvs :
        KpsCall("kps_strim_post",
                kps_strim_post(token, issued, STRIMS_POST_URL, env),
                STRIMS_POST_URL, env)

call_kps_strim_put ==
    \E env \in KpsEnvs :
        KpsCall("kps_strim_put",
                kps_strim_put(token, issued, STRIMS_POST_URL, env),
                STRIMS_POST_URL, env)

LiveStep(name, r, probe, env) ==
    /\ issued + r.fetched <= MaxTokens
    /\ live' = r.live
    /\ token' = r.token
    /\ issued' = issued + r.fetched
    /\ op' = [name |-> name, arg |-> [probe |-> probe, env |-> env], pre |-> Pre]
    /\ said' = r.said
    /\ raised' = r.exc
    /\ returned' = None
    /\ http' = r.events
    /\ UNCHANGED <<google_api_key, rememberVars, serviceVars, schedVars, tvVars>>

\* check_live(sopel): the timer poll, every 60 seconds
check_live ==
    \E probe \in Probes : \E env \in LiveEnvs(live, google_api_key, TRUE, probe) :
        LiveStep("check_live",
                 _check_live(live, token, issued, google_api_key, TRUE, probe, env),
                 probe, env)

\* strim(sopel, trigger): the .strim command
strim ==
    \E probe \in Probes : \E env \in LiveEnvs(live, google_api_key, FALSE, probe) :
        LiveStep("strim",
                 strim_command(live, token, issued, google_api_key, probe, env),
                 probe, env)

\* ---- the ogs lookups

\* rankings the ratings service reports
Rankings == (0 - 1)..MaxRanking

\* statuses the ratings service answers with
OgsStatuses == {200, 404, 500}

\* the player with id 7
Players == {[id |-> 7, username |-> "alice", ranking |-> v] : v \in Rankings}

NoPlayer == [id |-> 0, username |-> "", ranking |-> 0]

\* what r.json() gives a player lookup: no JSON at all, a search result
\* with count > 0, a player, or a search result with count 0
UserBodies ==
    {[kind |-> k, player |-> NoPlayer] : k \in {"invalid", "empty"}}
        \cup {[kind |-> k, player |-> p] : k \in {"results", "player"}, p \in Players}

\* the game 42: alice plays black, bob plays white
Games ==
    {[id |-> 42, name |-> "Friendly Match", ranked |-> rk, black |-> b,
      white |-> [id |-> 8, username |-> "bob", ranking |-> w]] :
        rk \in BOOLEAN, b \in Players, w \in {30}}

NoGame ==
    [id |-> 0, name |-> "", ranked |-> FALSE, black |-> NoPlayer,
     white |-> NoPlayer]

\* what r.json() gives a game lookup
GameBodies ==
    {[kind |-> "invalid", game |-> NoGame]}
        \cup {[kind |-> "game", game |-> g] : g \in Games}

\* the environment of one lookup: whether the session had to refresh the
\* token and how that went, the status of the answer, its body; a body
\* nobody reads is pinned to the first of the set
OgsEnvs(bodies, unread) ==
    {e \in [refresh : {"none", "ok", "OAuth2Error"}, status : OgsStatuses,
            body : bodies] :
        /\ e.refresh = "OAuth2Error" => e.status = 200
        /\ (e.refresh = "OAuth2Error" \/ e.status # 200) => e.body = unread}

UserEnvs == OgsEnvs(UserBodies, [kind |-> "invalid", player |-> NoPlayer])
GameEnvs == OgsEnvs(GameBodies, [kind |-> "invalid", game |-> NoGame])

\* the argument text of .ogs and .ogsgame (trigger.match.group(2))
OgsArgs == {None, <<<<" ", "b", "o", "b", " ">>>>}
OgsGameArgs == {None, <<<<"4", "2", " ">>>>}

\* sopel.say / sopel.reply of the text a lookup returned; nothing when the
\* lookup raised
LookupSaid(r) ==
    IF r.exc = "none" THEN <<[to |-> "sender", text |-> r.text]>> ELSE <<>>

\* a handler of the lookups ran: r is what its lookup left behind, out is
\* what it sent
OgsStep(name, arg, r, out) ==
    /\ r.token <= MaxTokens
    /\ ogs_token' = r.token
    /\ op' = [name |-> name, arg |-> arg, pre |-> Pre]
    /\ said' = out
    /\ raised' = r.exc
    /\ returned' = None
    /\ http' = r.events
    /\ UNCHANGED <<strimVars, rememberVars, strims, schedVars, tvVars>>

\* ogs(sopel, trigger): the .ogs command
ogs ==
    \E args \in OgsArgs, nick \in {"alice"}, env \in UserEnvs :
        OgsStep("ogs", [args |-> args, nick |-> nick, env |-> env],
                get_ogs_user_api(ogs_token,
                    IF args = None \/ args[1] = <<>> THEN nick
                    ELSE Join(strip(args[1]), ""),
                    FALSE, env),
                LookupSaid(get_ogs_user_api(ogs_token,
                    IF args = None \/ args[1] = <<>> THEN nick
                    ELSE Join(strip(args[1]), ""),
                    FALSE, env)))

\* get_ogs_user(sopel, trigger): a line with a link to a player's page
get_ogs_user ==
    \E id \in {7}, env \in UserEnvs :
        OgsStep("get_ogs_user", [id |-> id, env |-> env],
                get_ogs_user_api(ogs_token, ToString(id), TRUE, env),
                LookupSaid(get_ogs_user_api(ogs_token, ToString(id), TRUE, env)))

\* ogs_game(sopel, trigger): the .ogsgame command
ogs_game ==
    \E args \in OgsGameArgs :
        IF args = None \/ args[1] = <<>>
        THEN OgsStep("ogs_game", [args |-> args],
                     Looked(ogs_token, "none", <<>>, ""), <<>>)
        ELSE \E env \in GameEnvs :
                OgsStep("ogs_game", [args |-> args, env |-> env],
                        get_ogs_game_api(ogs_token, Join(strip(args[1]), ""),
                                         env),
                        LookupSaid(get_ogs_game_api(ogs_token,
                                       Join(strip(args[1]), ""), env)))

\* ---- the delayed lookups

\* the lines with a game link, in the order they arrive
GameLines == 1..MaxGames

\* how the bot runs its handlers: one at a time, or each in its own thread
Dispatches == {"single", "threads"}

NoEvent == [time |-> 0, seq |-> 0, line |-> 0]

\* a line that has not arrived yet: where its handler stands (pc), the
\* time sched.enter computed for its event, the event sched.run looked at,
\* and for the lookup of the line how often it ran and what it said
NewGame ==
    [pc |-> "new", time |-> 0, checked |-> NoEvent, runs |-> 0, said |-> <<>>]

\* the handler of the line is between its first and its last statement
Running(g) == g.pc \in {"enter", "run", "sleep", "call"}

\* what the ratings service answers a delayed lookup with, the session
\* holding a token that is good or one it cannot refresh: the game 42,
\* ranked, between two 5d players, or no JSON at all
GameLinkEnvs ==
    {e \in GameEnvs :
        /\ e.refresh # "ok"
        /\ e.status = 200
        /\ e.body.kind = "game"
              => e.body.game.ranked /\ e.body.game.black.ranking = 30}

\* what a step of these handlers leaves alone besides the scheduler and
\* the lines: what a line's lookup says is kept with the line
Quiet == UNCHANGED <<strimVars, rememberVars, strims, dispatch, now, tvVars,
                     op, said, raised, returned, http>>

\* time.time() moves on while a handler is at work
tick ==
    /\ now < MaxTime
    /\ \E m \in GameLines : Running(games[m])
    /\ now' = now + 1
    /\ UNCHANGED <<strimVars, rememberVars, serviceVars, dispatch, ogs_sched,
                   ogs_seq, games, tvVars, op, said, raised, returned, http>>

\* get_ogs_game(sopel, trigger) up to the first statement of sched.enter:
\* the handler of the line m starts and reads the clock, outside the lock
get_ogs_game(m) ==
    /\ games[m].pc = "new"
    /\ \A k \in GameLines : k < m => games[k].pc # "new"
    /\ dispatch = "single" => \A k \in GameLines : ~Running(games[k])
    /\ games' = [games EXCEPT ![m].pc = "enter",
                              ![m].time = sched_enter(now)]
    /\ UNCHANGED <<ogs_sched, ogs_seq, ogs_token>>
    /\ Quiet

\* sched.enter, its second statement, in the handler of the line m:
\* enterabs queues the event under the lock of the scheduler
get_ogs_game_enterabs(m) ==
    /\ games[m].pc = "enter"
    /\ ogs_sched' = sched_enterabs(ogs_sched, games[m].time, ogs_seq, m)
    /\ ogs_seq' = ogs_seq + 1
    /\ games' = [games EXCEPT ![m].pc = "run", ![m].time = 0]
    /\ UNCHANGED ogs_token
    /\ Quiet

\* sched.run(), the head of its loop in the handler of the line m, under
\* the lock of the scheduler: return when the queue is empty; else look at
\* the first event and at the clock, and take the event off the queue when
\* its time has come
sched_run(m) ==
    /\ games[m].pc = "run"
    /\ IF ogs_sched = {}
       THEN /\ games' = [games EXCEPT ![m].pc = "returned"]
            /\ UNCHANGED ogs_sched
       ELSE IF sched_head(ogs_sched).time > now
       THEN /\ games' = [games EXCEPT ![m].pc = "sleep",
                                      ![m].checked = sched_head(ogs_sched)]
            /\ UNCHANGED ogs_sched
       ELSE /\ games' = [games EXCEPT ![m].pc = "call",
                                      ![m].checked = sched_head(ogs_sched)]
            /\ ogs_sched' = ogs_sched \ {sched_head(ogs_sched)}
    /\ UNCHANGED <<ogs_seq, ogs_token>>
    /\ Quiet

\* sched.run(): delayfunc(time - now) returns once the time has come
sched_run_delay(m) ==
    /\ games[m].pc = "sleep"
    /\ now >= games[m].checked.time
    /\ games' = [games EXCEPT ![m].pc = "run", ![m].checked = NoEvent]
    /\ UNCHANGED <<ogs_sched, ogs_seq, ogs_token>>
    /\ Quiet

\* the handler of the line m ran the event e it had taken off the queue:
\* delayed_say says what the lookup r returned, or the exception of the
\* lookup leaves sched.run and the handler
DelayedSaid(m, e, r) ==
    /\ r.token <= MaxTokens
    /\ ogs_token' = r.token
    /\ games' = [games EXCEPT
                    ![e.line].runs = @ + 1,
                    ![e.line].said = @ \o delayed_say(r),
                    ![m].pc = IF r.exc = "none" THEN "run" ELSE "raised",
                    ![m].checked = NoEvent]
    /\ UNCHANGED <<ogs_sched, ogs_seq>>
    /\ Quiet

\* sched.run(): action(*argument) outside the lock, for the event the
\* handler of the line m took off the queue
sched_run_action(m) ==
    /\ games[m].pc = "call"
    /\ \E env \in GameLinkEnvs :
          DelayedSaid(m, games[m].checked,
                      get_ogs_game_api(ogs_token, ToString(42), env))

\* ---- the tv schedule

\* the shows' short names, the strim_slug of a call
Shows == {<<"m", "k", "a">>, <<"i", "n", "k", "i">>}

\* BROAD_DATE_TM of a programme at 18:00 on a day of November 2016
StartTime(d1, d2) ==
    <<"2", "0", "1", "6", ".", "1", "1", ".", d1, d2,
      " ", "1", "8", ":", "0", "0">>

\* programmes the OllehTV search returns: two start times on a channel
\* of tv_stations, and a programme on a channel that is no station
Programs ==
    {[BROAD_DATE_TM |-> StartTime("0", "3"), CHNL_NO |-> 27],
     [BROAD_DATE_TM |-> StartTime("1", "0"), CHNL_NO |-> 27],
     [BROAD_DATE_TM |-> StartTime("0", "3"), CHNL_NO |-> 99]}

\* the strim with this slug exists at strim.pmrowla.com
strim_exists(created, slug) == \E i \in 1..Len(created) : created[i] = slug

\* the environments of a kps_strim_* call in which the server answers
\* with a status of S
ServerEnvs(S) ==
    {e \in KpsEnvs :
        /\ e.first.exc = "none" => e.first.status \in S
        /\ e.retry.exc = "none" => e.retry.status \in S}

\* the server's answers to GET strims/<slug>/: 200 for a strim that exists,
\* 404 for one that does not, and 500 when it fails
GetEnvs(exists) == ServerEnvs(IF exists THEN {200, 500} ELSE {404, 500})

\* the server's answers to POST strims/: 200 when it created the strim, 500
\* when it did not
PostEnvs == ServerEnvs({200, 500})

\* an environment for the parts of a run that make no request
NoRequest ==
    [first |-> [exc |-> "none", status |-> 200], fetch |-> "ok",
     retry |-> [exc |-> "none", status |-> 200]]

\* the existence check ends with the answer 404
Answers404(e) ==
    \/ e.first.exc = "none" /\ e.first.status = 404
    \/ /\ e.first.exc = "TokenExpiredError"
       /\ e.fetch = "ok"
       /\ e.retry.exc = "none" /\ e.retry.status = 404

\* the environments of one schedule_program_strim run with these stations
\* in memory and these strims at the server
ScheduleEnvs(stations, created, strim_slug, program) ==
    IF channel_slug(stations, program.CHNL_NO) = ""
    THEN {[get |-> NoRequest, post |-> NoRequest]}
    ELSE {e \in [get : GetEnvs(strim_exists(created,
                                strim_data_slug(strim_slug, program))),
                 post : PostEnvs] :
             ~Answers404(e.get) => e.post = NoRequest}

\* the server created a strim: it answered a POST with 200
strim_created(events) ==
    \E i \in 1..Len(events) :
        events[i].call = "post" /\ events[i].exc = "none" /\ events[i].status = 200

ScheduleStep(strim_slug, program, env, r) ==
    /\ issued + r.fetched <= MaxTokens
    /\ token' = r.token
    /\ issued' = issued + r.fetched
    /\ strims' = IF strim_created(r.events)
                 THEN Append(strims, strim_data_slug(strim_slug, program))
                 ELSE strims
    /\ op' = [name |-> "schedule_program_strim",
              arg |-> [strim_slug |-> strim_slug, program |-> program,
                       env |-> env],
              pre |-> Pre]
    /\ said' = <<>>
    /\ raised' = r.exc
    /\ returned' = r.msgs
    /\ http' = r.events
    /\ UNCHANGED <<live, google_api_key, rememberVars, ogs_token, schedVars, tvVars>>

\* fetch_upcoming_tv calls schedule_program_strim for a programme that
\* matches a show (line 693)
call_schedule_program_strim ==
    \E strim_slug \in Shows, program \in Programs :
        \E env \in ScheduleEnvs(tv_stations, strims, strim_slug, program) :
            ScheduleStep(strim_slug, program, env,
                schedule_program_strim(token, issued, tv_stations,
                                       strim_slug, program, env))

\* ---- inputs of the remember handlers

\* the argument text of .remember (trigger.match.group(2)); None when the
\* command came without arguments
RememberArgs ==
    {None,
     <<<<"s", "h", "o">>>>,
     <<<<"s", "h", "o", ":", "a">>>>,
     <<<<" ", "s", "h", "o", " ", ":", " ", "a", " ">>>>,
     <<<<"s", "h", "o", ":">>>>,
     <<<<"s", "h", "o", "w", ":", "a">>>>,
     <<<<"s", "h", "o", "w", ":", " ">>>>,
     <<<<"s", "h", "o", ".", ":", "c">>>>,
     <<<<"(", ":", "d">>>>}

\* the argument text of .forget
ForgetArgs ==
    {None,
     <<<<"s", "h", "o">>>>,
     <<<<" ", "s", "h", "o", "w", " ">>>>}

\* lines remember_respond is run on
Lines ==
    {<<"s", "h", "o">>,
     <<"S", "H", "O", "W">>,
     <<"a", " ", "s", "h", "o", "w", " ", "b">>,
     <<"s", "h", "o", "w", "s">>}

\* trigger.time of those lines, in seconds
LineTimes == {0, 29, 30, 59, 60}

\* seconds between trigger.time and datetime.utcnow() when a command runs
Ages == {15, 16}

\* mutant: the window is one second longer
replayed_late(age) == age > REPLAY + 1

\* trigger.time < (datetime.utcnow() - timedelta(seconds=15))
replayed(age) == age > REPLAY

\* the commands' inputs; for a sender who is no admin the rest is pinned,
\* the require_admin decorator returns before the handler reads it
RememberInputs ==
    {in \in [admin : BOOLEAN, age : Ages, args : RememberArgs] :
        ~in.admin => in.age = 15 /\ in.args = None}

ForgetInputs ==
    {in \in [admin : BOOLEAN, age : Ages, self : BOOLEAN, args : ForgetArgs] :
        ~in.admin => in.age = 15 /\ ~in.self /\ in.args = None}

\* a handler of the remember commands ran: what it left behind, what it
\* sent, and the exception that left it
RememberEnded(name, in, d, rows, last, out, exc) ==
    /\ Len(rows) <= MaxRows
    /\ remember' = d
    /\ kps_remember' = rows
    /\ last_remember' = last
    /\ op' = [name |-> name, arg |-> in, pre |-> Pre]
    /\ said' = out
    /\ raised' = exc
    /\ returned' = None
    /\ http' = <<>>
    /\ UNCHANGED <<strimVars, serviceVars, schedVars, tvVars>>

\* ... and no exception left it
RememberStep(name, in, d, rows, last, out) ==
    RememberEnded(name, in, d, rows, last, out, "none")

\* sopel.reply(text) with a text the handler holds as a literal: a message
\* text is a sequence of strings, a literal is one such string
Reply(text) == <<[to |-> "sender", text |-> <<text>>]>>

\* sopel.reply(text) with a text built from stored characters
ReplyText(chars) == <<[to |-> "sender", text |-> chars]>>

\* remember(sopel, trigger) once the replay test has passed and the
\* arguments hold a colon; parts = args.strip().split(':', 1)
remember_parsed(d, rows, parts) ==
    add_remember(d, rows, strip(parts[1]), strip(parts[2]), TRUE)

\* remember(sopel, trigger): the .remember command
remember_command ==
    \E in \in RememberInputs :
        IF in.admin /\ ~replayed(in.age) /\ in.args # None
           /\ in.args[1] # <<>> /\ has_colon(in.args[1])
        THEN RememberStep("remember", in,
                 remember_parsed(remember, kps_remember,
                                 split_colon(strip(in.args[1]))).remember,
                 remember_parsed(remember, kps_remember,
                                 split_colon(strip(in.args[1]))).kps_remember,
                 last_remember, Reply("I will remember that"))
        ELSE RememberStep("remember", in, remember, kps_remember,
                          last_remember, <<>>)

\* forget(sopel, trigger) once its guard has passed, k = args.strip()
forget_key(d, rows, k) ==
    IF truthy(dict_get(d, k))
    THEN [remember |-> dict_del(d, k), kps_remember |-> sql_delete(rows, k),
          said |-> Reply("I will forget that")]
    ELSE [remember |-> d, kps_remember |-> rows,
          said |-> Reply("I don't know about that")]

\* forget(sopel, trigger): the .forget command
forget ==
    \E in \in ForgetInputs :
        IF in.admin /\ ~(replayed(in.age) \/ in.self) /\ in.args # None
           /\ in.args[1] # <<>>
        THEN RememberStep("forget", in,
                 forget_key(remember, kps_remember, strip(in.args[1])).remember,
                 forget_key(remember, kps_remember, strip(in.args[1])).kps_remember,
                 last_remember,
                 forget_key(remember, kps_remember, strip(in.args[1])).said)
        ELSE RememberStep("forget", in, remember, kps_remember,
                          last_remember, <<>>)

\* the text remember_list replies with
rlist_text(d) == join_chars(dict_keys(d), <<",", " ">>)

\* remember_list(sopel, trigger): the .rlist command
remember_list ==
    \E admin \in BOOLEAN :
        RememberStep("rlist", [admin |-> admin], remember, kps_remember,
                     last_remember,
                     IF admin THEN ReplyText(rlist_text(remember)) ELSE <<>>)

\* remember_respond(sopel, trigger) on a line with its timestamp: the
\* loop over the phrases ends with re.error at a phrase whose pattern does
\* not compile, before anything is written or said; random.choice picks
\* any element of matches
respond_to(line, time) ==
    IF ~in_cooldown(last_remember, time)
       /\ \E i \in DOMAIN remember : re_error(remember[i].key)
    THEN RememberEnded("remember_respond", [line |-> line, time |-> time],
                       remember, kps_remember, last_remember, <<>>,
                       "re.error")
    ELSE IF ~in_cooldown(last_remember, time)
       /\ matches_of(remember, line) # <<>>
    THEN \E c \in 1..Len(matches_of(remember, line)) :
            RememberStep("remember_respond",
                [line |-> line, time |-> time],
                remember, kps_remember, <<time>>,
                <<[to |-> "sender",
                   text |-> dict_get(remember,
                                     matches_of(remember, line)[c])[1]]>>)
    ELSE RememberStep("remember_respond", [line |-> line, time |-> time],
                      remember, kps_remember, last_remember, <<>>)

\* remember_respond(sopel, trigger): run on every line
remember_respond ==
    \E line \in Lines, time \in LineTimes : respond_to(line, time)

\* ---- the tv guide

\* the weekday in Korea when the guide is fetched (Monday is 0)
Todays == {2, 3, 5}

\* PRGM_NM of a programme, as the pieces it is made of: a title, and the
\* mark of a rerun
ProgramNames ==
    {<<"M COUNTDOWN">>, <<"M COUNTDOWN", " ", "(\\uc7ac)">>, <<"Music Bank">>}

\* a programme of the OllehTV search with all it is read for
Listing(p, nm) ==
    [BROAD_DATE_TM |-> p.BROAD_DATE_TM, FIN_TM |-> "19:00",
     CHNL_NO |-> p.CHNL_NO, CHNL_NM |-> "ch", PRGM_NM |-> nm]

Listings == {Listing(p, nm) : p \in Programs, nm \in ProgramNames}

NoListings == [SRCH_EPG_CNT |-> 0, SRCH_EPG_LIST |-> <<>>]

\* what otv.search(name) returns: nothing, one programme, or this week's
\* and next week's M COUNTDOWN
SearchResults ==
    {NoListings}
        \cup {[SRCH_EPG_CNT |-> 1, SRCH_EPG_LIST |-> <<l>>] : l \in Listings}
        \cup {[SRCH_EPG_CNT |-> 2,
               SRCH_EPG_LIST |->
                   <<Listing([BROAD_DATE_TM |-> StartTime("0", "3"),
                              CHNL_NO |-> 27], <<"M COUNTDOWN">>),
                     Listing([BROAD_DATE_TM |-> StartTime("1", "0"),
                              CHNL_NO |-> 27], <<"M COUNTDOWN">>)>>]}

\* the show airs today or tomorrow
airs(show, today) ==
    show.weekday = today \/ show.weekday = (today + 1) % 7

\* the characters of a short name: of a default show, or of the show the
\* tv commands add
slug_chars(shortname) ==
    CASE shortname = "theshow" -> <<"t", "h", "e", "s", "h", "o", "w">>
      [] shortname = "weekly" -> <<"w", "e", "e", "k", "l", "y">>
      [] shortname = "showchamp" ->
             <<"s", "h", "o", "w", "c", "h", "a", "m", "p">>
      [] shortname = "mka" -> <<"m", "k", "a">>
      [] shortname = "mubank" -> <<"m", "u", "b", "a", "n", "k">>
      [] shortname = "mucore" -> <<"m", "u", "c", "o", "r", "e">>
      [] shortname = "inki" -> <<"i", "n", "k", "i">>
      [] OTHER -> <<"n", "e", "w">>

\* the piece is one of the pieces of the programme's name
in_name(nm, piece) == \E i \in DOMAIN nm : nm[i] = piece

\* _match_live_show(sopel, show, search_prgm) for a show whose station is
\* in tv_stations and whose name has no character special to re: the
\* channel is the one of the station, the name of the show is found in
\* the name of the programme, and the programme is no rerun
_match_live_show(stations, show, search_prgm) ==
    /\ search_prgm.CHNL_NO
          = stations[CHOOSE i \in DOMAIN stations :
                        stations[i].slug = show.station].channel_num
    /\ in_name(search_prgm.PRGM_NM, show.name)
    /\ ~in_name(search_prgm.PRGM_NM, "(\\uc7ac)")

RECURSIVE upcoming(_, _, _, _, _, _)
\* the loops of fetch_upcoming_tv from the programme j of the show i on:
\* the programmes that match their show, in order, each with the short name
\* of the show; looking up a station that is not in tv_stations raises
\* KeyError
upcoming(shows, stations, today, found, i, j) ==
    IF i > Len(shows) THEN <<>>
    ELSE IF \/ ~airs(shows[i], today)
            \/ found[i].SRCH_EPG_CNT <= 0
            \/ j > Len(found[i].SRCH_EPG_LIST)
    THEN upcoming(shows, stations, today, found, i + 1, 1)
    ELSE IF ~in_stations(stations, shows[i].station)
    THEN <<[strim_slug |-> shows[i].shortname,
            program |-> found[i].SRCH_EPG_LIST[j], exc |-> "KeyError"]>>
    ELSE IF _match_live_show(stations, shows[i], found[i].SRCH_EPG_LIST[j])
    THEN <<[strim_slug |-> shows[i].shortname,
            program |-> found[i].SRCH_EPG_LIST[j], exc |-> "none"]>>
             \o upcoming(shows, stations, today, found, i, j + 1)
    ELSE upcoming(shows, stations, today, found, i, j + 1)

\* what fetch_upcoming_tv has done so far: the token, the tokens fetched,
\* the strims at the server, the exchanges, the exception that left it,
\* the programmes it collected and the environments its calls met
Fetched(tok, fetched, created, events, exc, programs, envs) ==
    [token |-> tok, fetched |-> fetched, strims |-> created,
     events |-> events, exc |-> exc, programs |-> programs, envs |-> envs]

\* programs.append(program); schedule_program_strim(sopel, k, program),
\* which left r behind
FetchedNext(S, call, env, r) ==
    Fetched(r.token, S.fetched + r.fetched,
            IF strim_created(r.events)
            THEN Append(S.strims,
                        strim_data_slug(slug_chars(call.strim_slug),
                                        call.program))
            ELSE S.strims,
            S.events \o r.events, r.exc, Append(S.programs, call.program),
            Append(S.envs, env))

RECURSIVE fetch_upcoming_tv(_, _, _, _, _)
\* fetch_upcoming_tv(sopel) from the matching programme i on, with n tokens
\* issued before it: the ways it can end, one for each way the strim
\* server answers the calls
fetch_upcoming_tv(S, n, stations, calls, i) ==
    IF i > Len(calls) \/ S.exc # "none" THEN {S}
    ELSE IF calls[i].exc # "none"
    THEN {Fetched(S.token, S.fetched, S.strims, S.events, calls[i].exc,
                  S.programs, S.envs)}
    ELSE UNION
        {fetch_upcoming_tv(
             FetchedNext(S, calls[i], env,
                 schedule_program_strim(S.token, n + S.fetched, stations,
                     slug_chars(calls[i].strim_slug), calls[i].program, env)),
             n, stations, calls, i + 1) :
         env \in ScheduleEnvs(stations, S.strims,
                              slug_chars(calls[i].strim_slug),
                              calls[i].program)}

\* the shows the search finds programmes for in one fetch
MaxFound == 1

\* what the search returns for each show: programmes for at most MaxFound
\* of the shows that are searched, nothing for the others; for a show that
\* is not searched it is pinned
Founds(today) ==
    LET searched == {i \in DOMAIN tv_shows : airs(tv_shows[i], today)}
    IN  [DOMAIN tv_shows -> {NoListings}] \cup
        UNION {{[i \in DOMAIN tv_shows |->
                    IF i \in F THEN g[i] ELSE NoListings] :
                  g \in [F -> SearchResults \ {NoListings}]} :
               F \in {G \in SUBSET searched :
                         Cardinality(G) \in 1..MaxFound}}

\* the replies of tvguide for the programmes it got
guide_replies(programs) ==
    IF programs = <<>> THEN Reply("Nothing on air today or tomorrow")
    ELSE [i \in DOMAIN programs |->
             [to |-> "sender",
              text |-> <<"[" \o Join(programs[i].BROAD_DATE_TM, "") \o "-"
                          \o programs[i].FIN_TM \o " KST] "
                          \o programs[i].CHNL_NM \o ": "
                          \o Join(programs[i].PRGM_NM, "")>>]]

\* a handler ran fetch_upcoming_tv, which ended as S, and sent out when
\* no exception left it
GuideStep(name, today, found, S, out) ==
    /\ issued + S.fetched <= MaxTokens
    /\ token' = S.token
    /\ issued' = issued + S.fetched
    /\ strims' = S.strims
    /\ op' = [name |-> name,
              arg |-> [today |-> today, found |-> found, envs |-> S.envs],
              pre |-> Pre]
    /\ said' = IF S.exc = "none" THEN out ELSE <<>>
    /\ raised' = S.exc
    /\ returned' = None
    /\ http' = S.events
    /\ UNCHANGED <<live, google_api_key, rememberVars, ogs_token, schedVars,
                   tvVars>>

\* tvguide(sopel, trigger): the .tvguide command
tvguide ==
    \E today \in Todays :
        \E found \in Founds(today) :
            \E S \in fetch_upcoming_tv(
                         Fetched(token, 0, strims, <<>>, "none", <<>>, <<>>),
                         issued, tv_stations,
                         upcoming(tv_shows, tv_stations, today, found, 1, 1),
                         1) :
                GuideStep("tvguide", today, found, S,
                          guide_replies(S.programs))

\* auto_schedule_strims(sopel): the guide is fetched every twelve hours
auto_schedule_strims ==
    \E today \in Todays :
        \E found \in Founds(today) :
            \E S \in fetch_upcoming_tv(
                         Fetched(token, 0, strims, <<>>, "none", <<>>, <<>>),
                         issued, tv_stations,
                         upcoming(tv_shows, tv_stations, today, found, 1, 1),
                         1) :
                GuideStep("auto_schedule_strims", today, found, S, <<>>)

\* ---- the tv shows

\* a channel the strim server lists that is no default station
Arte == [slug |-> "arte", name |-> "ARTE", channel_num |-> 99]

\* the strim server answers the request for the channels with 200
PlainKps ==
    [first |-> [exc |-> "none", status |-> 200], fetch |-> "ok",
     retry |-> [exc |-> "none", status |-> 200]]

\* the strim server lists no channel of its own
PlainTvEnv == [kps |-> PlainKps, json |-> TRUE, results |-> <<>>]

\* the environment of setup_tv: the answer to the request for the channels
\* (200 or 500), whether its body is JSON, and the channels it lists
TvEnvs ==
    {e \in [kps : {k \in KpsEnvs : /\ k.first.exc = "none"
                                   /\ k.first.status \in {200, 500}},
            json : BOOLEAN, results : {<<>>, <<Arte>>}] :
        /\ e.kps.first.status # 200 => e.json
        /\ (e.kps.first.status # 200 \/ ~e.json) => e.results = <<>>}

\* the environments in which setup_tv goes through
TvOkEnvs == {e \in TvEnvs : e.kps.first.status = 200 /\ e.json}

\* the argument of .tvadd as args.strip().split(' ', 3) gives it; None when
\* the command came without arguments
TvAddArgs ==
    {None,
     <<<<"mka">>>>,
     <<<<"mka", "kbs2", "4", "B">>>>,
     <<<<"new", "arte", "1", "A">>>>,
     <<<<"new", "nope", "1", "A">>>>,
     <<<<"new", "mnet", "x", "A">>>>}

\* the argument of .tvdel and .tvdetails as args.strip() gives it
TvNames == {None, <<"mka">>, <<"new">>}

\* the module is loaded: its last setup went through
TvLoaded == ~(op.name = "restart" /\ raised # "none")

TvMemory == TvState(tv_stations, tv_shows, kps_tv_station, kps_tv_show)

\* a handler of the tv commands ran: T is what it left behind, out what it
\* sent, exc the exception that left it
TvStep(name, arg, T, out, exc) ==
    /\ TvLoaded
    /\ tv_stations' = T.tv_stations
    /\ tv_shows' = T.tv_shows
    /\ kps_tv_station' = T.kps_tv_station
    /\ kps_tv_show' = T.kps_tv_show
    /\ op' = [name |-> name, arg |-> arg, pre |-> Pre]
    /\ said' = out
    /\ raised' = exc
    /\ returned' = None
    /\ http' = <<>>
    /\ UNCHANGED <<strimVars, rememberVars, serviceVars, schedVars>>

\* a command under require_admin from a sender who is no admin: the
\* decorator returns before the handler runs, nothing is sent or changed
TvRefused(name, args) ==
    TvStep(name, [admin |-> FALSE, args |-> args], TvMemory, <<>>, "none")

\* tvadd(sopel, trigger) for an admin
TvAdd(arg, args) ==
    IF args = None \/ Len(args[1]) # 4
    THEN TvStep("tvadd", arg, TvMemory,
                Reply("Usage: .tvadd <shortname> <station> <weekday> <name>"),
                "none")
    ELSE IF ~in_stations(tv_stations, args[1][2])
    THEN TvStep("tvadd", arg, TvMemory,
                Reply("Unknown TV station: " \o args[1][2]), "none")
    ELSE IF ~is_int(args[1][3])
    THEN TvStep("tvadd", arg, TvMemory, <<>>, "ValueError")
    ELSE TvStep("tvadd", arg,
                add_tv_show(TvMemory, args[1][1], args[1][4], args[1][2],
                            int(args[1][3]), TRUE),
                Reply("Added " \o args[1][1]), "none")

\* tvadd(sopel, trigger) under require_admin: the .tvadd command
tvadd ==
    \E admin \in BOOLEAN, args \in TvAddArgs :
        IF admin THEN TvAdd([admin |-> TRUE, args |-> args], args)
        ELSE TvRefused("tvadd", args)

\* tvdel(sopel, trigger) for an admin
TvDel(arg, args) ==
    IF args = None
    THEN TvStep("tvdel", arg, TvMemory, Reply("Usage: .tvdel <shortname>"),
                "none")
    ELSE IF ~in_shows(tv_shows, args[1])
    THEN TvStep("tvdel", arg, TvMemory,
                Reply("Unknown TV show: " \o args[1]), "none")
    ELSE LET keep(show) == show.shortname # args[1] IN
         TvStep("tvdel", arg,
                TvState(tv_stations, SelectSeq(tv_shows, keep),
                        kps_tv_station, SelectSeq(kps_tv_show, keep)),
                Reply("Removed " \o args[1]), "none")

\* tvdel(sopel, trigger) under require_admin: the .tvdel command
tvdel ==
    \E admin \in BOOLEAN, args \in TvNames :
        IF admin THEN TvDel([admin |-> TRUE, args |-> args], args)
        ELSE TvRefused("tvdel", args)

\* tvlist(sopel, trigger): the .tvlist command
tvlist ==
    TvStep("tvlist", None, TvMemory,
           IF tv_shows # <<>>
           THEN Reply("Aired programs: "
                        \o Join([i \in DOMAIN tv_shows |->
                                    tv_shows[i].shortname], " "))
           ELSE Reply("None"),
           "none")

\* tvstations(sopel, trigger): the .tvstations command
tvstations ==
    TvStep("tvstations", None, TvMemory,
           IF tv_stations # <<>>
           THEN Reply(Join([i \in DOMAIN tv_stations |-> tv_stations[i].slug],
                           " "))
           ELSE Reply("None"),
           "none")

\* the reply of tvdetails for a show of tv_shows: the weekday is taken from
\* the list of names, then the station from tv_stations
TvDetails(args, show) ==
    IF show.weekday > 6
    THEN TvStep("tvdetails", args, TvMemory, <<>>, "IndexError")
    ELSE IF ~in_stations(tv_stations, show.station)
    THEN TvStep("tvdetails", args, TvMemory, <<>>, "KeyError")
    ELSE LET station == tv_stations[CHOOSE i \in DOMAIN tv_stations :
                                       tv_stations[i].slug = show.station] IN
         TvStep("tvdetails", args, TvMemory,
                Reply(station.name \o " " \o show.name \o ": Airs "
                        \o WEEKDAYS[show.weekday + 1] \o "s KST"),
                "none")

\* tvdetails(sopel, trigger): the .tvdetails command
tvdetails ==
    \E args \in TvNames :
        IF args = None
        THEN TvStep("tvdetails", args, TvMemory,
                    Reply("Usage: .tvdetails <shortname>"), "none")
        ELSE IF ~in_shows(tv_shows, args[1])
        THEN TvStep("tvdetails", args, TvMemory,
                    Reply("Unknown TV show: " \o args[1]), "none")
        ELSE TvDetails(args, tv_shows[CHOOSE i \in DOMAIN tv_shows :
                                         tv_shows[i].shortname = args[1]])

\* tables a run may start from: rows the bot stored in an earlier run
InitTables ==
    {<<>>, <<[remember |-> <<"s", "h", "o">>, response |-> <<"a">>]>>}

\* setup(sopel) up to setup_tv: the first tokens are in memory, the strim is
\* taken to be down, the remember dict is loaded from the table
Setup ==
    /\ token = 1
    /\ issued = 1
    /\ live = FALSE
    /\ google_api_key \in BOOLEAN
    /\ kps_remember \in InitTables
    /\ remember = setup_remember(kps_remember)
    /\ last_remember = None
    /\ ogs_token = 1
    /\ strims = <<>>
    /\ dispatch \in Dispatches
    /\ now = 0
    /\ ogs_sched = {}
    /\ ogs_seq = 0
    /\ games = [m \in GameLines |-> NewGame]
    /\ op = [name |-> "setup", arg |-> "", pre |-> [token |-> 0, issued |-> 0, live |-> FALSE]]
    /\ said = <<>>
    /\ raised = "none"
    /\ returned = None

\* the memory and the tables are the ones of T
TvIs(T) ==
    /\ tv_stations = T.tv_stations
    /\ tv_shows = T.tv_shows
    /\ kps_tv_station = T.kps_tv_station
    /\ kps_tv_show = T.kps_tv_show

\* the exchanges of setup(sopel) before setup_tv: the token of the ratings
\* service is fetched, then the token of the strim server
SetupFetches ==
    <<Exchange("fetch_token", OGS_TOKEN_URL, 0, "none", 200),
      Exchange("fetch_token", TOKEN_URL, 0, "none", 200)>>

\* setup_tv(sopel) in the first run of the bot, on empty tables, and the
\* exchanges setup made by then
SetupTv(env) ==
    /\ TvIs(setup_tv(<<>>, <<>>, kps_strim_get(1, 1, CHANNELS_URL, env.kps),
                     env).tv)
    /\ http = SetupFetches \o kps_strim_get(1, 1, CHANNELS_URL, env.kps).events

\* setup(sopel) went through setup_tv, which left with r, after its request
\* for the channels, which left with g
Restarted(env, g, r) ==
    /\ issued + 1 + g.fetched <= MaxTokens
    /\ ogs_token < MaxTokens
    /\ ogs_token' = ogs_token + 1
    /\ token' = g.token
    /\ issued' = issued + 1 + g.fetched
    /\ live' = FALSE
    /\ remember' = setup_remember(kps_remember)
    /\ last_remember' = None
    /\ ogs_sched' = {}
    /\ ogs_seq' = 0
    /\ tv_stations' = r.tv.tv_stations
    /\ tv_shows' = r.tv.tv_shows
    /\ kps_tv_station' = r.tv.kps_tv_station
    /\ kps_tv_show' = r.tv.kps_tv_show
    /\ op' = [name |-> "restart",
              arg |-> [rows |-> kps_remember, env |-> env], pre |-> Pre]
    /\ said' = <<>>
    /\ raised' = r.exc
    /\ returned' = None
    /\ http' = SetupFetches \o g.events
    /\ UNCHANGED <<google_api_key, kps_remember, strims, dispatch, now, games>>

\* setup(sopel) run by a restart of the bot on the same database: memory is
\* new (no last_remember, no queued lookup), the token endpoints hand out
\* their next token, the strim is taken to be down, setup_remember loads
\* its table again and setup_tv loads its tables and asks the strim server
\* for its channels
restart_with(env) ==
    Restarted(env,
        kps_strim_get(issued + 1, issued + 1, CHANNELS_URL, env.kps),
        setup_tv(kps_tv_station, kps_tv_show,
                 kps_strim_get(issued + 1, issued + 1, CHANNELS_URL, env.kps),
                 env))

\* a restart while the strim server lists no channel of its own
restart == restart_with(PlainTvEnv)

\* a restart, the strim server answering the request for the channels in
\* any of the ways
tv_restart == \E env \in TvEnvs : restart_with(env)

\* The client with the watcher, and the responder, share no state: each is
\* explored from setup with the other one's configuration held at one value.
Init ==
    Setup /\ kps_remember = <<>> /\ dispatch = "single" /\ SetupTv(PlainTvEnv)

InitRemember ==
    Setup /\ ~google_api_key /\ dispatch = "single" /\ SetupTv(PlainTvEnv)

\* the delayed lookups, under either way of running the handlers
InitGames ==
    Setup /\ kps_remember = <<>> /\ ~google_api_key /\ SetupTv(PlainTvEnv)

\* the tv commands, from a first run in which the strim server listed its
\* channels
InitTv ==
    /\ Setup /\ kps_remember = <<>> /\ ~google_api_key /\ dispatch = "single"
    /\ \E env \in TvOkEnvs : SetupTv(env)

InitSchedule == Init /\ ~google_api_key

InitOgs == Init /\ ~google_api_key

\* the kps-strim client and the live watcher
Next ==
    \/ call_kps_strim_get
    \/ call_kps_strim_post
    \/ call_kps_strim_put
    \/ check_live
    \/ strim

\* the remember / forget responder
NextRemember ==
    \/ remember_command
    \/ forget
    \/ remember_list
    \/ remember_respond

\* the commands that write the table, over several runs of the bot on one
\* database
NextRestart ==
    \/ remember_command
    \/ forget
    \/ restart

\* the ogs lookups
NextOgs ==
    \/ ogs
    \/ get_ogs_user
    \/ ogs_game

\* the lines with a game link and their delayed lookups
NextGames ==
    \/ tick
    \/ \E m \in GameLines : get_ogs_game(m)
    \/ \E m \in GameLines : get_ogs_game_enterabs(m)
    \/ \E m \in GameLines : sched_run(m)
    \/ \E m \in GameLines : sched_run_delay(m)
    \/ \E m \in GameLines : sched_run_action(m)

\* the tv commands, over several runs of the bot on one database
NextTv ==
    \/ tvadd
    \/ tvdel
    \/ tvdetails
    \/ tvlist
    \/ tvstations
    \/ tv_restart

\* the tv schedule written to strim.pmrowla.com
NextSchedule ==
    \/ call_schedule_program_strim

\* the tv guide fetched on command and every twelve hours
NextGuide ==
    \/ tvguide
    \/ auto_schedule_strims

Spec == Init /\ [][Next]_vars

SpecRemember == InitRemember /\ [][NextRemember]_vars

SpecRestart == InitRemember /\ [][NextRestart]_vars

SpecOgs == InitOgs /\ [][NextOgs]_vars

SpecGuide == InitSchedule /\ [][NextGuide]_vars

SpecSchedule == InitSchedule /\ [][NextSchedule]_vars

SpecGames == InitGames /\ [][NextGames]_vars

SpecTv == InitTv /\ [][NextTv]_vars

\* ================================================================= claims

\* ---- observations of a kps_strim_* call

IsKpsCall == op.name \in {"kps_strim_get", "kps_strim_post", "kps_strim_put"}

\* the session method the helper that ran uses
MethodOf(name) ==
    CASE name = "kps_strim_get" -> "get"
      [] name = "kps_strim_post" -> "post"
      [] name = "kps_strim_put" -> "put"

\* request attempts and token fetches of the handler that ran last
Attempts == Cardinality({i \in 1..Len(http) : http[i].call # "fetch_token"})
Fetches == Cardinality({i \in 1..Len(http) : http[i].call = "fetch_token"})

\* the first attempt signalled expiry, the token endpoint answered, and the
\* second attempt did not signal expiry
ExpiredThenNot ==
    /\ IsKpsCall
    /\ op.arg.env.first.exc = "TokenExpiredError"
    /\ op.arg.env.fetch = "ok"
    /\ op.arg.env.retry.exc = "none"

\* one token fetch followed by one retry of the same request, made with
\* the fetched token, which is the token memory holds afterwards
OneFetchOneRetry ==
    /\ Len(http) = 3
    /\ http[1].call = MethodOf(op.name) /\ http[1].tok = op.pre.token
    /\ http[2].call = "fetch_token" /\ http[2].exc = "none"
    /\ http[3].call = http[1].call /\ http[3].url = http[1].url
    /\ http[3].tok = token
    /\ token = issued /\ token # op.pre.token

\* C1 as stated: when the first attempt signals expiry and the retry does
\* not, the call makes one token fetch, then one retry, returns the retry's
\* response, and memory holds the new token
C1_Original ==
    ExpiredThenNot =>
        /\ OneFetchOneRetry
        /\ raised = "none"
        /\ returned = <<op.arg.env.retry.status>>

\* C1 amended: as above, but the retry's response is returned only when
\* raise_for_status accepts it; a 4xx/5xx retry response leaves the call as
\* HTTPError (still after one fetch and one retry, with the new token stored)
C1_RefreshRetry ==
    ExpiredThenNot =>
        /\ OneFetchOneRetry
        /\ IF op.arg.env.retry.status >= 400
           THEN raised = "HTTPError" /\ returned = None
           ELSE raised = "none" /\ returned = <<op.arg.env.retry.status>>

\* a put whose retry was answered 200, made with the third token
C1_Witness ==
    /\ ExpiredThenNot
    /\ op.name = "kps_strim_put"
    /\ returned = <<200>>
    /\ token = 3

\* C2: expiry on the first attempt and again on the retry: the second
\* TokenExpiredError reaches the caller; no call makes more than two
\* attempts or more than one token fetch
C2_NoThirdAttempt ==
    IsKpsCall =>
        /\ Attempts <= 2
        /\ Fetches <= 1
        /\ (/\ op.arg.env.first.exc = "TokenExpiredError"
            /\ op.arg.env.fetch = "ok"
            /\ op.arg.env.retry.exc = "TokenExpiredError")
              => /\ raised = "TokenExpiredError"
                 /\ returned = None
                 /\ Attempts = 2
                 /\ Fetches = 1

\* a call that signalled expiry twice and let the second one escape
C2_Witness ==
    /\ IsKpsCall
    /\ op.arg.env.first.exc = "TokenExpiredError"
    /\ op.arg.env.retry.exc = "TokenExpiredError"
    /\ raised = "TokenExpiredError"
    /\ Len(http) = 3

\* the first attempt came back with a response (no expiry signal)
FirstAnswered == IsKpsCall /\ op.arg.env.first.exc = "none"

\* the error is raised after one attempt, without a fetch, token unchanged
RaisedAtOnce ==
    /\ raised = "HTTPError"
    /\ returned = None
    /\ Attempts = 1
    /\ Fetches = 0
    /\ token = op.pre.token

\* C3 as stated: a first response that is not 2xx (and no expiry signal) is
\* raised after one attempt, with no token fetch and the token unchanged
C3_Original ==
    (FirstAnswered /\ ~(op.arg.env.first.status \in 200..299)) => RaisedAtOnce

\* ---- observations of a poll (check_live) and of the strim command

IsPoll == op.name = "check_live"
IsStrim == op.name = "strim"

\* the probe answered with a document the parser accepts
ProbeOk(p) == p.exc = "none" /\ ~(p.status \in 400..599) /\ p.text.wellformed
\* the probe reports the strim as active / as not active
SeesActive(p) == ProbeOk(p) /\ "active" \in p.text.below
SeesDown(p) == ProbeOk(p) /\ ~("active" \in p.text.below)

\* the schedule lookup made with this environment fails
LookupFails(env) == _next_strim(0, 0, google_api_key, env).exc # "none"

NowLiveTexts ==
    {"Strim is now live | https://strim.pmrowla.com/",
     "Strim is now live | https://goo.gl/?https://strim.pmrowla.com/"}

ScheduleTexts ==
    {"No scheduled strims",
     "Next strim in {} | {} - {}: {} | https://strim.pmrowla.com/strims/{}/",
     "Next strim in {} | {} - {}: {} | https://goo.gl/?https://strim.pmrowla.com/strims/{}/"}

FinishedTexts ==
    {"Strim finished"} \cup {"Strim finished | " \o t : t \in ScheduleTexts}

IsLiveTexts ==
    {"Strim is live | https://strim.pmrowla.com/",
     "Strim is live | https://goo.gl/?https://strim.pmrowla.com/"}

IsDownTexts ==
    {"Strim is down"} \cup {"Strim is down | " \o t : t \in ScheduleTexts}

\* exactly one message to every channel, each with a text among texts
Announced(texts) ==
    /\ Len(said) = Len(channels)
    /\ \A i \in 1..Len(said) : said[i].to = channels[i] /\ said[i].text \in texts

\* no message of the handler is a transition notification
NoTransitionText ==
    \A i \in 1..Len(said) : said[i].text \notin NowLiveTexts \cup FinishedTexts

\* a poll speaks only when the probe's result differs from the stored value
C4_OnlyOnChange ==
    (IsPoll /\ said # <<>>) =>
        /\ ProbeOk(op.arg.probe)
        /\ SeesActive(op.arg.probe) # op.pre.live

\* a poll that sees "active" with DOWN stored tells every channel once, and
\* stores LIVE
C4_WentLive ==
    (IsPoll /\ SeesActive(op.arg.probe)) =>
        /\ live
        /\ ~op.pre.live => Announced(NowLiveTexts)

\* a poll that follows a poll which saw "active", and still sees "active"
C4_FollowingPoll ==
    (/\ IsPoll /\ SeesActive(op.arg.probe)
     /\ op'.name = "check_live" /\ SeesActive(op'.arg.probe))
        => said' = <<>>

\* C4 as stated: from DOWN at setup, in any sequence of polls: a poll
\* notifies only when the probe differs from the stored is_live; "active"
\* over DOWN gives one 'Strim is now live' per channel; the polls after it
\* that still see "active" say nothing
C4_Original ==
    /\ [](C4_OnlyOnChange /\ C4_WentLive)
    /\ [][C4_FollowingPoll]_vars

\* C5 as stated: whichever handler changes the stored is_live, DOWN to LIVE
\* comes with 'Strim is now live' to the channels and LIVE to DOWN with
\* 'Strim finished'
C5_Original ==
    (IsPoll \/ IsStrim) =>
        /\ (~op.pre.live /\ live) => Announced(NowLiveTexts)
        /\ (op.pre.live /\ ~live) => Announced(FinishedTexts)

\* C6 as stated: a poll that sees LIVE turn to DOWN while the lookup of the
\* next strim fails still says 'Strim finished' (without the schedule) and
\* stores DOWN
C6_Original ==
    (/\ IsPoll
     /\ op.pre.live
     /\ SeesDown(op.arg.probe)
     /\ LookupFails(op.arg.env))
        => /\ ~live
           /\ Announced({"Strim finished"})

\* C7: a poll whose probe fails changes nothing the module keeps (is_live,
\* the token), says nothing and raises; so the polls after it run from the
\* state the failed poll found
C7_FailedProbeNoOp ==
    [][(op'.name = "check_live" /\ ~ProbeOk(op'.arg.probe))
          => /\ UNCHANGED <<live, token, issued, google_api_key>>
             /\ said' = <<>>
             /\ raised' \in {"ConnectionError", "HTTPError", "ParseError"}
             /\ Len(http') = 1]_vars

\* a poll over LIVE whose probe body did not parse
C7_Witness ==
    /\ IsPoll
    /\ ~ProbeOk(op.arg.probe)
    /\ op.pre.live
    /\ live
    /\ raised = "ParseError"
    /\ token = 2

\* C8 as stated: the strim command replies with the status the probe
\* reports, whatever is stored, and sends no transition notification
C8_Original ==
    (IsStrim /\ ProbeOk(op.arg.probe)) =>
        /\ Len(said) = 1
        /\ said[1].to = "sender"
        /\ said[1].text \in
              (IF SeesActive(op.arg.probe) THEN IsLiveTexts ELSE IsDownTexts)
        /\ NoTransitionText

\* ---- observations of the remember / forget commands

\* rows of the table that hold the phrase k
RowsOf(rows, k) == {j \in 1..Len(rows) : rows[j].remember = k}

\* C9 as stated: after any sequence of remember and forget commands the
\* table holds exactly one row per phrase of the dict, with the dict's
\* response, and no row for any other phrase
C9_Original ==
    /\ \A i \in 1..Len(remember) :
          /\ Cardinality(RowsOf(kps_remember, remember[i].key)) = 1
          /\ \A j \in RowsOf(kps_remember, remember[i].key) :
                kps_remember[j].response = remember[i].value
    /\ \A j \in 1..Len(kps_remember) :
          dict_has(remember, kps_remember[j].remember)

\* the command that ran was a remember that stored something
StoredByRemember == op.name = "remember" /\ said = Reply("I will remember that")

\* the phrase that remember stored
StoredPhrase == strip(split_colon(strip(op.arg.args[1]))[1])

\* a forget that passed the admin test and its guard, with an argument
LiveForget(o) ==
    /\ o.name = "forget"
    /\ o.arg.admin /\ ~o.arg.self /\ o.arg.age <= 15
    /\ o.arg.args # <<>>

\* the phrase k is gone: from the dict, from the table, from what rlist
\* lists, and from what a line can trigger
Absent(d, rows, k) ==
    /\ ~dict_has(d, k)
    /\ RowsOf(rows, k) = {}
    /\ \A i \in 1..Len(dict_keys(d)) : dict_keys(d)[i] # k
    /\ \A line \in Lines :
          \A i \in 1..Len(matches_of(d, line)) : matches_of(d, line)[i] # k

\* C10 as stated: a live forget right after a live remember of the same
\* phrase, whatever the response, leaves the phrase absent everywhere; and
\* forget answers "I don't know about that" only for a phrase not stored
C10_Original ==
    [][/\ (/\ StoredByRemember
           /\ LiveForget(op')
           /\ strip(op'.arg.args[1]) = StoredPhrase)
              => Absent(remember', kps_remember', StoredPhrase)
       /\ (/\ op'.name = "forget"
           /\ said' = Reply("I don't know about that"))
              => ~dict_has(remember, strip(op'.arg.args[1]))]_vars

\* ---- observations of a restart

\* a dict as a map: its phrases, each with its response
DictPairs(d) == {<<d[i].key, d[i].value>> : i \in 1..Len(d)}

\* C11: after any sequence of remember and forget commands (and earlier
\* restarts), the map setup_remember rebuilds from the table is equal,
\* phrase for phrase and response for response, to the map held in memory
C11_RestartRebuilds ==
    DictPairs(setup_remember(kps_remember)) = DictPairs(remember)

\* C11 happens: a restart over a table in which commands left two rows for
\* one phrase, one of them with an empty response
C11_Witness ==
    /\ op.name = "restart"
    /\ \E i, j \in 1..Len(kps_remember) :
          /\ i < j
          /\ kps_remember[i].remember = kps_remember[j].remember
          /\ kps_remember[i].response = <<>>
          /\ kps_remember[j].response # <<>>
    /\ remember # <<>>

\* ---- observations of remember_respond

\* the handler that ran last was remember_respond and it sent a response
Responded == op.name = "remember_respond" /\ said # <<>>

\* ... for a line with the timestamp t
RespondedAt(t) == Responded /\ op.arg.time = t

\* C12: a response is sent for a line only if no response was sent before
\* or the line's timestamp is at least 30 seconds after the timestamp kept
\* of the most recent response, whatever phrase produced it; that timestamp
\* is kept at every response and changed by no other step, so any two
\* responses are at least 30 seconds apart in message time
C12_Cooldown ==
    [][IF op'.name = "remember_respond" /\ said' # <<>>
       THEN /\ \/ last_remember = None
               \/ op'.arg.time - last_remember[1] >= COOLDOWN
            /\ last_remember' = <<op'.arg.time>>
       ELSE last_remember' = last_remember]_vars

\* C12 happens: a line that matches a stored phrase, stamped 29 seconds
\* after the response sent for a line stamped 30, got no response
C12_Witness ==
    /\ op.name = "remember_respond"
    /\ said = <<>>
    /\ matches_of(remember, op.arg.line) # <<>>
    /\ last_remember = <<30>>
    /\ op.arg.time = 59

\* ---- observations of the replay guard

\* the step ran remember or forget on a message more than 15 seconds old
ReplayedCommand(o) == o.name \in {"remember", "forget"} /\ o.arg.age > 15

\* C13: a remember or forget command whose message is more than 15 seconds
\* older than the processing time changes neither the dict nor the table
\* and sends no reply
C13_ReplayIgnored ==
    [][ReplayedCommand(op')
          => /\ remember' = remember
             /\ kps_remember' = kps_remember
             /\ said' = <<>>]_vars

\* C13 happens: an admin's well-formed .remember, 16 seconds old, was run
\* and nothing was stored or said
C13_Witness ==
    /\ op.name = "remember"
    /\ op.arg.admin
    /\ op.arg.age = 16
    /\ op.arg.args = <<<<"s", "h", "o", "w", ":", "a">>>>
    /\ ~dict_has(remember, <<"s", "h", "o", "w">>)
    /\ said = <<>>

\* ---- observations of the matching

\* the text of the phrase stands in the line at i (letters compared without
\* case), with whitespace or an end of the line on each side
OccursAt(phrase, line, i) ==
    /\ i + Len(phrase) - 1 <= Len(line)
    /\ \A k \in 1..Len(phrase) : lower(phrase[k]) = lower(line[i + k - 1])
    /\ i = 1 \/ line[i - 1] \in WS
    /\ i + Len(phrase) > Len(line) \/ line[i + Len(phrase)] \in WS

\* the phrase text occurs in the line as a whole word
OccursAsWord(phrase, line) ==
    \E i \in 1..(Len(line) + 1) : OccursAt(phrase, line, i)

\* C14 as stated: for every stored phrase and every line, the phrase
\* counts as a match exactly when its text occurs in the line delimited by
\* whitespace or the line's ends
C14_Original ==
    \A i \in 1..Len(remember) : \A line \in Lines :
        re_match(remember[i].key, line) <=> OccursAsWord(remember[i].key, line)

\* ---- observations of schedule_program_strim

IsSchedule(o) == o.name = "schedule_program_strim"

\* the requests of the handler that ran last, by method
RequestsBy(events, call) == {i \in 1..Len(events) : events[i].call = call}

\* the answer the existence check ended with: the status of the last GET
\* that was answered, 0 when none was
CheckAnswer(events) ==
    IF \E i \in RequestsBy(events, "get") : events[i].exc = "none"
    THEN events[CHOOSE i \in RequestsBy(events, "get") :
                    events[i].exc = "none"].status
    ELSE 0

\* the number of strims created with the slug
CreatedWith(created, slug) ==
    Cardinality({i \in 1..Len(created) : created[i] = slug})

\* C15: schedule_program_strim posts a create request only when the
\* existence check by slug was answered 404; and whatever runs are
\* repeated, no slug '<show>-<YYYYMMDD-HHMM>' is created more than once
C15_CreateOnly404 ==
    /\ [](\A i \in 1..Len(strims) : CreatedWith(strims, strims[i]) = 1)
    /\ [][(IsSchedule(op') /\ RequestsBy(http', "post") # {})
              => CheckAnswer(http') = 404]_vars

\* C15 happens: a run for a show and start time whose strim an earlier run
\* created found it with its GET and posted nothing
C15_Witness ==
    /\ IsSchedule(op)
    /\ strim_exists(strims, strim_data_slug(op.arg.strim_slug, op.arg.program))
    /\ CheckAnswer(http) = 200
    /\ RequestsBy(http, "post") = {}
    /\ Len(strims) = 2

\* ---- observations of the ogs lookups

IsUserLookup == op.name \in {"ogs", "get_ogs_user"}
IsGameLookup == op.name = "ogs_game" /\ op.arg.args # None

\* the lookup's request was answered with the status s
Answered(s) ==
    /\ IsUserLookup \/ IsGameLookup
    /\ http # <<>>
    /\ http[Len(http)].call = "get"
    /\ http[Len(http)].status = s

\* the friendly messages
NoSuchTexts ==
    {"No such player alice", "No such player bob", "No such player 7",
     "No such game 42"}

\* C16 as stated: a 404 gives the 'No such player/game' message, and an
\* HTTP error with another status gives a reply that is not that message
C16_Original ==
    /\ Answered(404) => said # <<>> /\ said[1].text \in NoSuchTexts
    /\ Answered(500) => said # <<>> /\ said[1].text \notin NoSuchTexts

\* a user lookup replied with a player's details
PlayerShown ==
    /\ IsUserLookup
    /\ Answered(200)
    /\ op.arg.env.body.kind \in {"results", "player"}
    /\ said # <<>>

\* the number and the unit the claim gives for a ranking
RankNumber(v) == IF v < 30 THEN 30 - v ELSE v - 29
RankUnit(v) == IF v < 30 THEN "Kyu" ELSE "Dan"

\* C18: ogs_display_rank gives '<30 - val> Kyu' below 30 and '<val - 29>
\* Dan' from 30 on, so 0 gives '30 Kyu', 29 gives '1 Kyu', 30 gives '1 Dan'
\* and the number shown is at least 1 from ranking 0 upward; and that text
\* is what a lookup shows for the player's ranking
C18_RankDisplay ==
    /\ \A v \in Rankings :
          /\ ogs_display_rank(v) = ToString(RankNumber(v)) \o " " \o RankUnit(v)
          /\ v >= 0 => RankNumber(v) >= 1
    /\ ogs_display_rank(0) = "30 Kyu"
    /\ ogs_display_rank(29) = "1 Kyu"
    /\ ogs_display_rank(30) = "1 Dan"
    /\ PlayerShown =>
          said[1].text =
              "alice (" \o ToString(RankNumber(op.arg.env.body.player.ranking))
                  \o " " \o RankUnit(op.arg.env.body.player.ranking)
                  \o ") | https://online-go.com/user/view/7"

\* C18 happens: a lookup showed the player with ranking 30 as '1 Dan'
C18_Witness ==
    /\ PlayerShown
    /\ op.arg.env.body.player.ranking = 30
    /\ said[1].text = "alice (1 Dan) | https://online-go.com/user/view/7"

\* ---- observations of the token-expired signal

\* C17 as stated: no kps_strim_* call, and no poll or command built on
\* them, lets the token-expired signal reach its caller
C17_Original ==
    (IsKpsCall \/ IsPoll \/ IsStrim) => raised # "TokenExpiredError"

\* the first attempt signalled expiry and the token fetch failed
FetchFailed ==
    /\ IsKpsCall
    /\ op.arg.env.first.exc = "TokenExpiredError"
    /\ op.arg.env.fetch # "ok"

\* C20: when the token fetch made after a token-expired signal fails, the
\* call lets that failure escape, makes no second request attempt, and
\* memory still holds the token it held before the call
C20_FetchFailure ==
    FetchFailed =>
        /\ raised = op.arg.env.fetch
        /\ returned = None
        /\ Attempts = 1
        /\ Len(http) = 2
        /\ http[2].call = "fetch_token" /\ http[2].exc = op.arg.env.fetch
        /\ token = op.pre.token
        /\ token >= 1
        /\ issued = op.pre.issued

\* C20 happens: a get whose token fetch failed, with the second token, got
\* by an earlier call, still in memory
C20_Witness ==
    /\ FetchFailed
    /\ op.name = "kps_strim_get"
    /\ raised = "OAuth2Error"
    /\ op.pre.token = 2
    /\ token = 2

\* ---- observations of the choice among matching phrases

\* the entries of the dict whose phrase the pattern finds in the line; a
\* pattern that does not compile finds nothing
Matching(d, line) ==
    {i \in 1..Len(d) : ~re_error(d[i].key) /\ re_match(d[i].key, line)}

\* a line stamped time is outside the cooldown
NotCooling(last, time) == last = None \/ time - last[1] >= COOLDOWN

\* remember_respond runs on the line and says the response of entry i
RespondsWith(line, time, i) ==
    /\ respond_to(line, time)
    /\ said' = <<[to |-> "sender", text |-> remember[i].value]>>

\* what a run of remember_respond outside the cooldown does: one response,
\* that of a matching phrase, when a phrase matches; nothing otherwise
RespondStep ==
    IF Matching(remember, op'.arg.line) # {}
    THEN /\ Len(said') = 1
         /\ \E i \in Matching(remember, op'.arg.line) :
                said'[1].text = remember[i].value
    ELSE said' = <<>> /\ last_remember' = last_remember

\* C19 as stated: outside the cooldown remember_respond sends exactly one
\* response, the stored response of a matching phrase, when some phrase
\* matches, and every matching phrase can be the one chosen; when none
\* matches it sends nothing and keeps the timestamp; the timestamp changes
\* only in a step that sends a response
C19_Original ==
    /\ [][(op'.name = "remember_respond"
              /\ NotCooling(last_remember, op'.arg.time)) => RespondStep]_vars
    /\ [][last_remember' # last_remember
              => op'.name = "remember_respond" /\ said' # <<>>]_vars
    /\ [](\A line \in Lines, time \in LineTimes :
             NotCooling(last_remember, time)
                 => \A i \in Matching(remember, line) :
                       ENABLED RespondsWith(line, time, i))

\* ---- C21

\* the handler of the line has left sched.run, by return or by exception
Ended(g) == g.pc \in {"returned", "raised"}

\* no handler is between its first and its last statement
AllIdle == \A m \in GameLines : ~Running(games[m])

\* C21, as stated: with one handler at a time, every line with a game link
\* a handler has dealt with got exactly one delayed message.
C21_Original ==
    dispatch = "single"
        => \A m \in GameLines : Ended(games[m]) => Len(games[m].said) = 1

\* the handler of the line m started in this step
Started(m) == games[m].pc = "new" /\ games'[m].pc # "new"

\* a message was sent for the line m in this step
SaidFor(m) == games'[m].said # games[m].said

\* the lookup of the line m is off the queue and has not run yet
InFlight(m) ==
    \E k \in GameLines : games[k].pc = "call" /\ games[k].checked.line = m

\* C21: the lookup of a line is run at most once, and it has run exactly once
\* when no handler is left in sched.run, which leaves the queue empty; a
\* message is only sent by a lookup that ran, at most once. With one handler
\* at a time at most one event is queued, a handler that returned has sent
\* its message, and a handler the lookup's exception left has sent none.
C21_RunsOnce ==
    /\ \A m \in GameLines :
          /\ games[m].runs <= 1
          /\ Len(games[m].said) <= games[m].runs
          /\ games[m].runs = 1
                => ~InFlight(m) /\ \A e \in ogs_sched : e.line # m
    /\ AllIdle
          => /\ ogs_sched = {}
             /\ \A m \in GameLines : games[m].pc # "new" => games[m].runs = 1
    /\ dispatch = "single"
          => /\ Cardinality(ogs_sched) <= 1
             /\ \A m \in GameLines :
                   /\ games[m].pc = "returned" => Len(games[m].said) = 1
                   /\ games[m].pc = "raised"
                         => games[m].said = <<>> /\ games[m].runs = 1

\* the handler of the line m queued its event in this step
Entered(m) == games[m].pc = "enter" /\ games'[m].pc # "enter"

\* C21: the handler of a line reads the clock at its start and queues the
\* lookup of the line for DELAY seconds after that, an event is taken off
\* the queue when its time has come, and the message of a line is sent by
\* the handler that took the lookup of the line off the queue.
C21_NotBefore ==
    \A m \in GameLines :
        /\ Started(m)
              => games'[m].pc = "enter" /\ games'[m].time = now + DELAY
        /\ Entered(m)
              => \E e \in ogs_sched' \ ogs_sched :
                    e.line = m /\ e.time = games[m].time
        /\ (\E e \in ogs_sched' \ ogs_sched : e.line = m) => Entered(m)
        /\ (\E e \in ogs_sched \ ogs_sched' : e.line = m)
              => \E e \in ogs_sched : e.line = m /\ now >= e.time
        /\ SaidFor(m) => InFlight(m)

\* C21: every line with a game link gets at most one delayed message, not
\* before DELAY seconds after its handler started: one when the lookup
\* returned, none when it raised; the lookup of each line runs exactly once,
\* with one handler at a time and with handlers that overlap, and with one
\* handler at a time the queue is empty when the handler has ended.
C21_DelayedOnce == [] C21_RunsOnce /\ [][C21_NotBefore]_vars

\* C21 happens: with one handler at a time, the lookup of the first line
\* raised and no message was sent for it, and the handler of the second
\* line returned after its message
C21_Witness ==
    /\ dispatch = "single"
    /\ games[1].pc = "raised" /\ games[1].said = <<>>
    /\ games[2].pc = "returned" /\ Len(games[2].said) = 1
    /\ now >= 2 * DELAY

\* two handlers overlapped: each lookup ran once, the one of the first line
\* in the handler of the second, which its exception left
C21_Overlap ==
    /\ dispatch = "threads"
    /\ AllIdle
    /\ now < 2 * DELAY
    /\ games[1].runs = 1 /\ games[2].runs = 1
    /\ games[1].said = <<>> /\ games[1].pc = "returned"
    /\ games[2].said # <<>> /\ games[2].pc = "raised"

\* ---- C22

\* station names add_tv_show may be given that tv_stations does not hold
UnknownStations ==
    {st \in {"nope", "arte", ""} : ~in_stations(tv_stations, st)}

\* C22: every show of tv_shows names a station of tv_stations, so tvdetails
\* never fails on the lookup of the station of a show; and add_tv_show with
\* a station that is not in tv_stations leaves the dicts and the tables as
\* they are, whether or not it was to write the table.
C22_StationsKnown ==
    /\ \A i \in DOMAIN tv_shows :
          in_stations(tv_stations, tv_shows[i].station)
    /\ ~(op.name = "tvdetails" /\ raised = "KeyError")
    /\ \A st \in UnknownStations, shortname \in {"mka", "new"},
          update_db \in BOOLEAN :
            add_tv_show(TvMemory, shortname, "A", st, 1, update_db) = TvMemory

\* C22 happens: after a restart tv_shows holds a show of a station the
\* strim server once listed, and a .tvadd that named a station nobody
\* knows was turned down
C22_Witness ==
    /\ issued > 1
    /\ \E i \in DOMAIN tv_shows :
          tv_shows[i].shortname = "new" /\ tv_shows[i].station = "arte"
    /\ op.name = "tvadd"
    /\ said = Reply("Unknown TV station: nope")
    /\ UnknownStations # {}

====
